---- MODULE Spec2Model ----
(***************************************************************************)
(* The scenario store of OpenGov-EarlyGerman: AIConversationPartner's      *)
(* construction (_load_scenarios, _merge_scenarios) and its read           *)
(* operations (scenario, available_scenarios, get_all_scenarios).          *)
(*                                                                         *)
(* JSON values are records of one shape [t, s, l, d]: t is the Python type *)
(* ("null", "str", "list", "dict"), s the text of a str, l the elements of *)
(* a list, d the items of a dict in insertion order (a sequence of         *)
(* <<key, value>> pairs with distinct keys, as a Python dict keeps them).  *)
(***************************************************************************)
EXTENDS Naturals, Sequences, FiniteSets, TLC

VARIABLES scenarios_file, append_lists, fs, pc, scenarios, log, ret,
          formality, conversation_history, sent, cli, call, out

vars == <<scenarios_file, append_lists, fs, pc, scenarios, log, ret,
          formality, conversation_history, sent, cli, call, out>>

\* The conversation state of the partner and the messages of its last request.
talk == <<formality, conversation_history, sent>>

\* The outcome of the last `scenario` command, and the arguments and the
\* result of the last call of a grammar teacher.
aside == <<cli, call, out>>

(* ------------------------------ bounds --------------------------------- *)

\* The largest number of entries of an overlay document.
MaxOverlay == 2

(* --------------------------- JSON values ------------------------------- *)

Null == [t |-> "null", s |-> "", l |-> <<>>, d |-> <<>>]

Str(x) == [t |-> "str", s |-> x, l |-> <<>>, d |-> <<>>]

List(xs) == [t |-> "list", s |-> "", l |-> xs, d |-> <<>>]

Dict(items) == [t |-> "dict", s |-> "", l |-> <<>>, d |-> items]

\* isinstance(v, dict), isinstance(v, list)
IsDict(v) == v.t = "dict"

IsList(v) == v.t = "list"

\* Python truthiness: None, "", [] and {} are false.
Truthy(v) ==
    CASE v.t = "null" -> FALSE
      [] v.t = "str" -> v.s # ""
      [] v.t = "list" -> v.l # <<>>
      [] v.t = "dict" -> v.d # <<>>

Range(q) == {q[i] : i \in 1..Len(q)}

(* ------------------- dict operations (insertion order) ----------------- *)

\* list(d.keys())
Keys(items) == [i \in 1..Len(items) |-> items[i][1]]

\* k in d
Has(items, k) == \E i \in 1..Len(items) : items[i][1] = k

\* d[k]
Get(items, k) == items[CHOOSE i \in 1..Len(items) : items[i][1] = k][2]

\* d.get(k, dflt)
GetOr(items, k, dflt) == IF Has(items, k) THEN Get(items, k) ELSE dflt

\* Set with the bug "del d[k]; d[k] = v": a replaced key moves to the end.
SetLast(items, k, v) ==
    LET Other(e) == e[1] # k IN Append(SelectSeq(items, Other), <<k, v>>)

\* d[k] = v: an existing key keeps its position, a new key goes last.
Set(items, k, v) ==
    IF Has(items, k)
    THEN [i \in 1..Len(items) |-> IF items[i][1] = k THEN <<k, v>> ELSE items[i]]
    ELSE Append(items, <<k, v>>)

\* d.update(o)
RECURSIVE Update(_, _)
Update(items, o) ==
    IF o = <<>> THEN items
    ELSE Update(Set(items, Head(o)[1], Head(o)[2]), Tail(o))

(* ---------------------- the built-in collection ------------------------ *)

DefaultName == "Bäckerei"

Baeckerei ==
    Dict(<< <<"setting", Str("You're at a German bakery")>>,
            <<"starter", Str("Guten Morgen! Was darf es sein?")>>,
            <<"english", Str("Good morning! What can I get you?")>>,
            <<"vocabulary", Dict(<< <<"das Brötchen", Str("bread roll")>>,
                                    <<"das Brot", Str("bread")>>,
                                    <<"der Kuchen", Str("cake")>>,
                                    <<"die Brezel", Str("pretzel")>>,
                                    <<"das Croissant", Str("croissant")>> >>)>>,
            <<"useful_phrases", List(<< "Ich hätte gern... - I would like...",
                                        "Was kostet...? - What does ... cost?",
                                        "Haben Sie...? - Do you have...?",
                                        "Das macht... - That comes to..." >>)>>,
            <<"cultural_tips", List(<< "Germans buy fresh bread daily",
                                       "Bakeries open very early (6-7 AM)",
                                       "Sunday is special - fresh Brötchen for breakfast" >>)>> >>)

Apotheke ==
    Dict(<< <<"setting", Str("You're at a German pharmacy")>>,
            <<"starter", Str("Guten Tag! Wie kann ich Ihnen helfen?")>>,
            <<"english", Str("Good day! How can I help you?")>>,
            <<"vocabulary", Dict(<< <<"das Medikament", Str("medicine")>>,
                                    <<"das Rezept", Str("prescription")>>,
                                    <<"die Tablette", Str("tablet")>>,
                                    <<"der Hustensaft", Str("cough syrup")>>,
                                    <<"das Pflaster", Str("band-aid")>> >>)>>,
            <<"useful_phrases", List(<< "Ich brauche etwas gegen... - I need something for...",
                                        "Haben Sie etwas für...? - Do you have something for...?",
                                        "Wie oft soll ich das nehmen? - How often should I take this?" >>)>> >>)

Restaurant ==
    Dict(<< <<"setting", Str("You're at a traditional German restaurant")>>,
            <<"starter", Str("Guten Abend! Haben Sie reserviert?")>>,
            <<"english", Str("Good evening! Do you have a reservation?")>>,
            <<"vocabulary", Dict(<< <<"die Speisekarte", Str("menu")>>,
                                    <<"die Vorspeise", Str("appetizer")>>,
                                    <<"das Hauptgericht", Str("main course")>>,
                                    <<"die Nachspeise", Str("dessert")>>,
                                    <<"die Rechnung", Str("bill")>> >>)>>,
            <<"useful_phrases", List(<< "Ich hätte gern... - I would like...",
                                        "Was können Sie empfehlen? - What can you recommend?",
                                        "Die Rechnung, bitte. - The bill, please.",
                                        "Stimmt so. - Keep the change." >>)>> >>)

\* `default` of _load_scenarios, in the order the literal lists it.
Default ==
    << <<"Bäckerei", Baeckerei>>, <<"Apotheke", Apotheke>>, <<"Restaurant", Restaurant>> >>

(* ------------------------- _merge_scenarios ---------------------------- *)

\* NotIn with the bug of a plain extend: every overlay element is appended.
NotInAll(oval, have) == oval

\* [x for x in oval if x not in merged[field]]
NotIn(oval, have) ==
    LET Novel(x) == x \notin Range(have) IN SelectSeq(oval, Novel)

\* MergeField with the bug of no nested merge: a mapping replaces a mapping.
MergeFieldFlat(merged, field, oval, append) ==
    IF append /\ IsList(GetOr(merged, field, Null)) /\ IsList(oval)
    THEN Set(merged, field,
             List(Get(merged, field).l \o NotIn(oval.l, Get(merged, field).l)))
    ELSE Set(merged, field, oval)

\* MergeField with the bug of not consulting append_lists: lists always append.
MergeFieldAppends(merged, field, oval, append) ==
    IF Has(merged, field) /\ IsDict(Get(merged, field)) /\ IsDict(oval)
    THEN Set(merged, field, Dict(Update(Get(merged, field).d, oval.d)))
    ELSE IF IsList(GetOr(merged, field, Null)) /\ IsList(oval)
         THEN Set(merged, field,
                  List(Get(merged, field).l \o NotIn(oval.l, Get(merged, field).l)))
         ELSE Set(merged, field, oval)

\* One pass of the loop over odata.items(): the field `field` of the overlay
\* entry merged into `merged`.
MergeField(merged, field, oval, append) ==
    IF Has(merged, field) /\ IsDict(Get(merged, field)) /\ IsDict(oval)
    THEN Set(merged, field, Dict(Update(Get(merged, field).d, oval.d)))
    ELSE IF append /\ IsList(GetOr(merged, field, Null)) /\ IsList(oval)
         THEN Set(merged, field,
                  List(Get(merged, field).l \o NotIn(oval.l, Get(merged, field).l)))
         ELSE Set(merged, field, oval)

RECURSIVE MergeFields(_, _, _)
MergeFields(merged, odata, append) ==
    IF odata = <<>> THEN merged
    ELSE MergeFields(MergeField(merged, Head(odata)[1], Head(odata)[2], append),
                     Tail(odata), append)

\* MergeEntry with the bug of skipping an entry that is not a dict.
MergeEntrySkips(result, name, odata, append) ==
    IF ~IsDict(odata) THEN result
    ELSE IF ~Has(result, name) THEN Set(result, name, odata)
    ELSE Set(result, name, Dict(MergeFields(Get(result, name).d, odata.d, append)))

\* One pass of the loop over override.items().
MergeEntry(result, name, odata, append) ==
    IF ~Has(result, name) \/ ~IsDict(odata)
    THEN Set(result, name, odata)
    ELSE Set(result, name, Dict(MergeFields(Get(result, name).d, odata.d, append)))

RECURSIVE MergeEntries(_, _, _)
MergeEntries(result, override, append) ==
    IF override = <<>> THEN result
    ELSE MergeEntries(MergeEntry(result, Head(override)[1], Head(override)[2], append),
                      Tail(override), append)

\* dict(v) of the comprehension that copies base: a dict is copied, an empty
\* str or list gives {}, None and a non-empty str or list of phrases raise.
DictCopyRaises(v) == ~IsDict(v) /\ (v.t = "null" \/ Truthy(v))

DictCopy(v) == IF IsDict(v) THEN v ELSE Dict(<<>>)

\* _merge_scenarios(base, override) with self.append_lists = append:
\* [raised, value].
MergeScenarios(base, override, append) ==
    IF \E i \in 1..Len(base) : DictCopyRaises(base[i][2])
    THEN [raised |-> TRUE, value |-> <<>>]
    ELSE [raised |-> FALSE,
          value |-> MergeEntries([i \in 1..Len(base) |-> <<base[i][1], DictCopy(base[i][2])>>],
                                 override, append)]

(* --------------------------- the file system --------------------------- *)

\* scenarios_file = None
None == "None"

\* settings.media_storage_path / "scenarios.json"
DefaultPath == "media/scenarios.json"

CustomPath == "custom_scenarios.json"

Paths == {DefaultPath, CustomPath}

\* What a path holds: nothing, a file that cannot be opened, text that is not
\* JSON, or the JSON value its text denotes.
Missing == [kind |-> "missing", doc |-> Null]

Denied == [kind |-> "denied", doc |-> Null]

Invalid == [kind |-> "invalid", doc |-> Null]

Json(v) == [kind |-> "json", doc |-> v]

(* --------------------------- _load_scenarios --------------------------- *)

\* The body of the try block: [raised, returned, value].
TryLoad(file, append) ==
    IF file.kind = "missing"
    THEN [raised |-> FALSE, returned |-> FALSE, value |-> <<>>]
    ELSE IF file.kind \in {"denied", "invalid"}
    THEN [raised |-> TRUE, returned |-> FALSE, value |-> <<>>]
    ELSE IF IsDict(file.doc)
    THEN LET m == MergeScenarios(Default, file.doc.d, append)
         IN [raised |-> m.raised, returned |-> ~m.raised, value |-> m.value]
    ELSE [raised |-> FALSE, returned |-> FALSE, value |-> <<>>]

\* PathOf with the bug of a wrong fallback path.
PathOfCustom(sf) == IF sf = None THEN CustomPath ELSE sf

\* path = self.scenarios_file, or the default path when that is None
PathOf(sf) == IF sf = None THEN DefaultPath ELSE sf

\* LoadScenarios with the bug of falling back to an empty collection.
LoadScenariosEmpty(sf, files, append) ==
    LET try == TryLoad(files[PathOf(sf)], append)
    IN [value |-> IF try.returned THEN try.value ELSE <<>>,
        warnings |-> IF try.raised THEN <<"warning">> ELSE <<>>]

\* _load_scenarios: [value, warnings]
LoadScenarios(sf, files, append) ==
    LET try == TryLoad(files[PathOf(sf)], append)
    IN [value |-> IF try.returned THEN try.value ELSE Default,
        warnings |-> IF try.raised THEN <<"warning">> ELSE <<>>]

(* ------------------------------ lookups -------------------------------- *)

NotFoundResult ==
    << <<"dialogue", Str("")>>, <<"english", Str("")>>,
       <<"setting", Str("Scenario not found")>>, <<"vocabulary", Dict(<<>>)>>,
       <<"useful_phrases", List(<<>>)>>, <<"cultural_tips", List(<<>>)>> >>

\* The dict scenario() builds from a scenario that is a dict.
Rendered(sc) ==
    << <<"dialogue", GetOr(sc, "starter", Str(""))>>,
       <<"english", GetOr(sc, "english", Str(""))>>,
       <<"setting", GetOr(sc, "setting", Str(""))>>,
       <<"vocabulary", GetOr(sc, "vocabulary", Dict(<<>>))>>,
       <<"useful_phrases", GetOr(sc, "useful_phrases", List(<<>>))>>,
       <<"cultural_tips", GetOr(sc, "cultural_tips", List(<<>>))>> >>

\* scenario(scenario_type) on the collection coll: [raised, val]. A value that
\* is neither falsy nor a dict has no .get: AttributeError.
ScenarioOf(coll, scenario_type) ==
    LET scenario == GetOr(coll, scenario_type, GetOr(coll, DefaultName, Dict(<<>>)))
    IN IF ~Truthy(scenario) THEN [raised |-> FALSE, val |-> Dict(NotFoundResult)]
       ELSE IF ~IsDict(scenario) THEN [raised |-> TRUE, val |-> Null]
       ELSE [raised |-> FALSE, val |-> Dict(Rendered(scenario.d))]

(* ------------------------------- inputs -------------------------------- *)

OverlayNames == {"Bäckerei", "Post", "Café"}

NewScenario ==
    Dict(<< <<"setting", Str("office")>>, <<"starter", Str("Hi")>>,
            <<"english", Str("Hi")>>, <<"vocabulary", Dict(<<>>)>>,
            <<"useful_phrases", List(<<>>)>> >>)

Refinement ==
    Dict(<< <<"vocabulary", Dict(<< <<"das Brot", Str("loaf")>>,
                                    <<"das Baguette", Str("baguette")>> >>)>>,
            <<"useful_phrases", List(<< "Wie viel kostet das? - How much does that cost?",
                                        "Ich hätte gern... - I would like...",
                                        "Wie viel kostet das? - How much does that cost?" >>)>> >>)

Mismatched ==
    Dict(<< <<"vocabulary", List(<<"das Brot">>)>>,
            <<"useful_phrases", Str("keine")>>,
            <<"setting", Dict(<< <<"ort", Str("Markt")>> >>)>>,
            <<"notes", List(<<"n">>)>> >>)

EntryValues ==
    {Null, Str("geschlossen"), List(<<"Guten Tag!">>), Dict(<<>>),
     NewScenario, Refinement, Mismatched}

Entries == OverlayNames \X EntryValues

\* The JSON objects of n entries (the keys of a dict are distinct).
RECURSIVE DocsOfLen(_)
DocsOfLen(n) ==
    IF n = 0 THEN {<<>>}
    ELSE UNION {{Append(q, e) : e \in {x \in Entries : ~Has(q, x[1])}} :
                q \in DocsOfLen(n - 1)}

OverlayDocs == UNION {DocsOfLen(n) : n \in 0..MaxOverlay}

\* JSON documents whose top-level value is not an object.
NonObjects == {Null, Str("not an object"), List(<<"Post">>)}

FileContents ==
    {Missing, Denied, Invalid} \cup {Json(v) : v \in NonObjects}
        \cup {Json(Dict(o)) : o \in OverlayDocs}

\* What the path that construction does not read may hold.
OtherContents == {Missing, Json(Dict(<< <<"Post", NewScenario>>, <<"Bäckerei", Refinement>> >>))}

LookupNames == OverlayNames \cup {"NonExistent"}

(* ----------------------------- the store ------------------------------- *)

NoRet == [op |-> "", arg |-> "", raised |-> FALSE, val |-> Null]

\* Formality.FORMAL, Formality.INFORMAL
FORMAL == "formal"

INFORMAL == "informal"

\* No `scenario` command has run; no teacher has been called.
NoCli == [requested |-> "", outcome |-> "", chosen |-> "", suggestion |-> <<>>, val |-> Null]

NoCall == [op |-> ""]

NoOut == [op |-> ""]

Init ==
    /\ scenarios_file \in {None, CustomPath}
    /\ append_lists \in BOOLEAN
    /\ \E read \in FileContents, other \in OtherContents :
          fs = [p \in Paths |->
                   IF p = (IF scenarios_file = None THEN DefaultPath ELSE scenarios_file)
                   THEN read ELSE other]
    /\ pc = "new"
    /\ scenarios = <<>>
    /\ log = <<>>
    /\ ret = NoRet
    /\ formality = None
    /\ conversation_history = <<>>
    /\ sent = <<>>
    /\ cli = NoCli
    /\ call = NoCall
    /\ out = NoOut

\* AIConversationPartner.__init__: self._scenarios = self._load_scenarios()
Construct ==
    /\ pc = "new"
    /\ LET loaded == LoadScenarios(scenarios_file, fs, append_lists)
       IN /\ scenarios' = loaded.value
          /\ log' = log \o loaded.warnings
    /\ pc' = "ready"
    /\ formality' = FORMAL
    /\ conversation_history' = <<>>
    /\ UNCHANGED <<scenarios_file, append_lists, fs, ret, sent, aside>>

\* scenario(scenario_type) with the bug of storing what it fell back to
\* under the requested name (setdefault).
ScenarioCaches(name) ==
    /\ pc = "ready"
    /\ LET r == ScenarioOf(scenarios, name)
       IN ret' = [op |-> "scenario", arg |-> name, raised |-> r.raised, val |-> r.val]
    /\ scenarios' = IF Has(scenarios, name) THEN scenarios
                    ELSE Append(scenarios, <<name, GetOr(scenarios, DefaultName, Dict(<<>>))>>)
    /\ UNCHANGED <<scenarios_file, append_lists, fs, pc, log, talk, aside>>

\* partner.scenario(name)
Scenario(name) ==
    /\ pc = "ready"
    /\ LET r == ScenarioOf(scenarios, name)
       IN ret' = [op |-> "scenario", arg |-> name, raised |-> r.raised, val |-> r.val]
    /\ UNCHANGED <<scenarios_file, append_lists, fs, pc, scenarios, log, talk, aside>>

\* partner.available_scenarios()
AvailableScenarios ==
    /\ pc = "ready"
    /\ ret' = [op |-> "available_scenarios", arg |-> "", raised |-> FALSE,
               val |-> List(Keys(scenarios))]
    /\ UNCHANGED <<scenarios_file, append_lists, fs, pc, scenarios, log, talk, aside>>

\* partner.get_all_scenarios()
GetAllScenarios ==
    /\ pc = "ready"
    /\ ret' = [op |-> "get_all_scenarios", arg |-> "", raised |-> FALSE,
               val |-> Dict(scenarios)]
    /\ UNCHANGED <<scenarios_file, append_lists, fs, pc, scenarios, log, talk, aside>>

Next ==
    \/ Construct
    \/ \E name \in LookupNames : Scenario(name)
    \/ AvailableScenarios
    \/ GetAllScenarios

Spec == Init /\ [][Next]_vars

(* ------------------------ notions of the claims ------------------------ *)

\* The file construction read, and the overlay document it merged.
ReadFile == fs[IF scenarios_file = None THEN DefaultPath ELSE scenarios_file]

Applied == pc = "ready" /\ ReadFile.kind = "json" /\ IsDict(ReadFile.doc)

Overlay == ReadFile.doc.d

KeySet(items) == Range(Keys(items))

\* The overlay entries that refine a base scenario field by field.
Refining == {i \in 1..Len(Overlay) : Has(Default, Overlay[i][1]) /\ IsDict(Overlay[i][2])}

\* An overlay sequence without the elements of a base sequence.
RECURSIVE Without(_, _)
Without(o, b) ==
    IF o = <<>> THEN <<>>
    ELSE IF \E i \in 1..Len(b) : b[i] = Head(o)
         THEN Without(Tail(o), b)
         ELSE <<Head(o)>> \o Without(Tail(o), b)

(* C1: after construction every field of every built-in scenario is still  *)
(* present under that scenario's name, whatever the overlay held.          *)
C1_BaseFieldsKept ==
    pc = "ready" =>
        \A i \in 1..Len(Default) :
            /\ Has(scenarios, Default[i][1])
            /\ IsDict(Get(scenarios, Default[i][1]))
            /\ KeySet(Default[i][2].d) \subseteq KeySet(Get(scenarios, Default[i][1]).d)

(* C2: a mapping given for a field whose base value is a mapping yields    *)
(* the key-wise union: overlay keys carry the overlay's values, the other  *)
(* base keys their base values, and there is no further key.               *)
C2_MappingUnion ==
    Applied =>
        \A i \in Refining :
            LET name == Overlay[i][1]
                odata == Overlay[i][2].d
                bentry == Get(Default, name).d
            IN \A j \in 1..Len(odata) :
                   LET field == odata[j][1]
                       oval == odata[j][2]
                   IN (Has(bentry, field) /\ IsDict(Get(bentry, field)) /\ IsDict(oval)) =>
                          LET b == Get(bentry, field).d
                              m == GetOr(GetOr(scenarios, name, Null).d, field, Null)
                          IN /\ IsDict(m)
                             /\ KeySet(m.d) = KeySet(b) \cup KeySet(oval.d)
                             /\ Len(m.d) = Cardinality(KeySet(m.d))
                             /\ \A k \in KeySet(oval.d) : Get(m.d, k) = Get(oval.d, k)
                             /\ \A k \in KeySet(b) \ KeySet(oval.d) : Get(m.d, k) = Get(b, k)

C2_Witness ==
    /\ Applied
    /\ Has(Overlay, "Bäckerei")
    /\ Get(Overlay, "Bäckerei") = Refinement
    /\ LET v == Get(Get(scenarios, "Bäckerei").d, "vocabulary").d
       IN /\ Get(v, "das Brot") = Str("loaf")
          /\ Get(v, "das Baguette") = Str("baguette")
          /\ Get(v, "der Kuchen") = Str("cake")

C4_Replace ==
    Applied =>
        \A i \in Refining :
            LET name == Overlay[i][1]
                odata == Overlay[i][2].d
                bentry == Get(Default, name).d
            IN \A j \in 1..Len(odata) :
                   LET field == odata[j][1]
                       oval == odata[j][2]
                       absent == ~Has(bentry, field)
                       b == GetOr(bentry, field, Null)
                   IN (\/ absent
                       \/ b.t # oval.t
                       \/ (~append_lists /\ ~(IsDict(b) /\ IsDict(oval)))) =>
                          /\ log = <<>>
                          /\ Has(scenarios, name)
                          /\ IsDict(Get(scenarios, name))
                          /\ Has(Get(scenarios, name).d, field)
                          /\ Get(Get(scenarios, name).d, field) = oval

C4_Witness ==
    /\ Applied
    /\ Has(Overlay, "Bäckerei")
    /\ Get(Overlay, "Bäckerei") = Mismatched
    /\ Get(Get(scenarios, "Bäckerei").d, "vocabulary") = List(<<"das Brot">>)
    /\ Get(Get(scenarios, "Bäckerei").d, "useful_phrases") = Str("keine")
    /\ Get(Get(scenarios, "Bäckerei").d, "notes") = List(<<"n">>)

(* C5: a name the base lacks, or whose overlay value is not a mapping,     *)
(* holds exactly the overlay's value in the merged collection.             *)
C5_Verbatim ==
    Applied =>
        \A i \in 1..Len(Overlay) :
            (~Has(Default, Overlay[i][1]) \/ ~IsDict(Overlay[i][2])) =>
                /\ Has(scenarios, Overlay[i][1])
                /\ Get(scenarios, Overlay[i][1]) = Overlay[i][2]

C5_Witness ==
    /\ Applied
    /\ Has(Overlay, "Bäckerei") /\ Get(Overlay, "Bäckerei") = Str("geschlossen")
    /\ Has(Overlay, "Post") /\ Get(Overlay, "Post") = Mismatched
    /\ Get(scenarios, "Bäckerei") = Str("geschlossen")
    /\ Get(scenarios, "Post") = Mismatched

\* What scenario() shows of each field of a stored scenario.
Shown ==
    { <<"dialogue", "starter">>, <<"english", "english">>, <<"setting", "setting">>,
      <<"vocabulary", "vocabulary">>, <<"useful_phrases", "useful_phrases">>,
      <<"cultural_tips", "cultural_tips">> }

(* C6: a scenario the overlay introduces under a new name is listed, and   *)
(* looking it up shows its fields as the overlay gave them (and nothing    *)
(* for a field it does not have), also when it has no fields at all.       *)
C6_NewScenarioLookup ==
    Applied =>
        \A i \in 1..Len(Overlay) :
            LET name == Overlay[i][1]
                odata == Overlay[i][2]
            IN (~Has(Default, name) /\ IsDict(odata)) =>
                   /\ name \in KeySet(scenarios)
                   /\ (ret.op = "scenario" /\ ret.arg = name) =>
                          /\ ~ret.raised
                          /\ IsDict(ret.val)
                          /\ \A p \in Shown :
                                 /\ Has(ret.val.d, p[1])
                                 /\ IF Has(odata.d, p[2])
                                    THEN Get(ret.val.d, p[1]) = Get(odata.d, p[2])
                                    ELSE ~Truthy(Get(ret.val.d, p[1]))

\* The overlay documents construction cannot use.
Unreadable ==
    \/ ReadFile.kind \in {"missing", "invalid"}
    \/ ReadFile.kind = "json" /\ ~IsDict(ReadFile.doc)

(* C7: with a missing file, a file that is not JSON or a JSON document     *)
(* that is not an object, construction completes with the built-in         *)
(* collection.                                                             *)
C7_UnreadableGivesDefault ==
    (pc = "ready" /\ Unreadable) => scenarios = Default

C7_Witness ==
    /\ pc = "ready"
    /\ scenarios_file = CustomPath
    /\ ReadFile = Invalid
    /\ fs[DefaultPath].kind = "json"
    /\ scenarios = Default

(* C8: each kind of unreadable overlay (missing, not JSON, not an object)  *)
(* leaves a warning in the log of construction; stated for an overlay      *)
(* file the caller named.                                                  *)
C8_UnreadableWarns ==
    (pc = "ready" /\ scenarios_file # None /\ Unreadable) => "warning" \in Range(log)

(* C9, as claimed: constructed with scenarios_file = None, the collection  *)
(* is the built-in one whatever files exist.                               *)
C9_NoneGivesDefault ==
    (pc = "ready" /\ scenarios_file = None) => scenarios = Default

(* C9, amended: constructed with scenarios_file = None, the collection is  *)
(* the built-in one unless the default path media/scenarios.json holds a   *)
(* JSON object; no other file matters.                                     *)
C9_NoneGivesDefaultUnlessDefaultFile ==
    (/\ pc = "ready"
     /\ scenarios_file = None
     /\ ~(fs[DefaultPath].kind = "json" /\ IsDict(fs[DefaultPath].doc)))
        => scenarios = Default

C9_Witness ==
    /\ pc = "ready"
    /\ scenarios_file = None
    /\ fs[DefaultPath] = Missing
    /\ fs[CustomPath].kind = "json"
    /\ IsDict(fs[CustomPath].doc)
    /\ scenarios = Default

(* C10: the names of the collection are the base names in base order, then *)
(* the names the overlay introduces in overlay order, none twice; this is  *)
(* what available_scenarios returns.                                       *)
C10_NameOrder ==
    pc = "ready" =>
        LET expected == Keys(Default)
                            \o (IF Applied THEN Without(Keys(Overlay), Keys(Default))
                                ELSE <<>>)
        IN /\ Keys(scenarios) = expected
           /\ Cardinality(KeySet(scenarios)) = Len(scenarios)
           /\ ret.op = "available_scenarios" => ret.val = List(expected)

C10_Witness ==
    /\ Applied
    /\ Keys(Overlay) = <<"Post", "Café">>
    /\ ret.op = "available_scenarios"
    /\ ret.val.l = <<"Bäckerei", "Apotheke", "Restaurant", "Post", "Café">>

(* ------------------------------- strings ------------------------------- *)

\* The characters of the scenario names, in code point order.
Alphabet ==
    <<"A", "B", "E", "N", "O", "P", "R", "S", "T", "U",
     "a", "b", "c", "e", "h", "i", "k", "n", "o", "p", "r", "s", "t", "u", "x", "y", "z", "ä">>

\* ord(c)
Ord(c) == CHOOSE i \in 1..Len(Alphabet) : Alphabet[i] = c

\* str.lower() of one character.
LowerChar(c) ==
    CASE c = "A" -> "a"
      [] c = "B" -> "b"
      [] c = "C" -> "c"
      [] c = "D" -> "d"
      [] c = "E" -> "e"
      [] c = "F" -> "f"
      [] c = "G" -> "g"
      [] c = "H" -> "h"
      [] c = "I" -> "i"
      [] c = "J" -> "j"
      [] c = "K" -> "k"
      [] c = "L" -> "l"
      [] c = "M" -> "m"
      [] c = "N" -> "n"
      [] c = "O" -> "o"
      [] c = "P" -> "p"
      [] c = "Q" -> "q"
      [] c = "R" -> "r"
      [] c = "S" -> "s"
      [] c = "T" -> "t"
      [] c = "U" -> "u"
      [] c = "V" -> "v"
      [] c = "W" -> "w"
      [] c = "X" -> "x"
      [] c = "Y" -> "y"
      [] c = "Z" -> "z"
      [] c = "Ä" -> "ä"
      [] c = "Ö" -> "ö"
      [] c = "Ü" -> "ü"
      [] OTHER -> c

\* The characters of a string: the strings of the program are sequences of
\* characters, those of the model are atoms.
Chars(name) ==
    CASE name = "Bäckerei" -> <<"B", "ä", "c", "k", "e", "r", "e", "i">>
      [] name = "Apotheke" -> <<"A", "p", "o", "t", "h", "e", "k", "e">>
      [] name = "Restaurant" -> <<"R", "e", "s", "t", "a", "u", "r", "a", "n", "t">>
      [] name = "Post" -> <<"P", "o", "s", "t">>
      [] name = "post" -> <<"p", "o", "s", "t">>
      [] name = "Pest" -> <<"P", "e", "s", "t">>
      [] name = "bäckerei" -> <<"b", "ä", "c", "k", "e", "r", "e", "i">>
      [] name = "RESTAURANT" -> <<"R", "E", "S", "T", "A", "U", "R", "A", "N", "T">>
      [] name = "Restauran" -> <<"R", "e", "s", "t", "a", "u", "r", "a", "n">>
      [] name = "POST" -> <<"P", "O", "S", "T">>
      [] name = "pst" -> <<"p", "s", "t">>
      [] name = "xyz" -> <<"x", "y", "z">>
      [] name = "" -> <<>>
      [] name = "Apothek" -> <<"A", "p", "o", "t", "h", "e", "k">>
      [] name = "Mann" -> <<"M", "a", "n", "n">>
      [] name = "Haus" -> <<"H", "a", "u", "s">>
      [] name = "Frau" -> <<"F", "r", "a", "u">>
      [] name = "Kinder" -> <<"K", "i", "n", "d", "e", "r">>
      [] name = "Fuß" -> <<"F", "u", "ß">>
      [] name = "Bus" -> <<"B", "u", "s">>
      [] name = "Komplex" -> <<"K", "o", "m", "p", "l", "e", "x">>
      [] name = "Netz" -> <<"N", "e", "t", "z">>
      [] name = "masculine" -> <<"m", "a", "s", "c", "u", "l", "i", "n", "e">>
      [] name = "feminine" -> <<"f", "e", "m", "i", "n", "i", "n", "e">>
      [] name = "neuter" -> <<"n", "e", "u", "t", "e", "r">>
      [] name = "plural" -> <<"p", "l", "u", "r", "a", "l">>
      [] name = "Masculine" -> <<"M", "a", "s", "c", "u", "l", "i", "n", "e">>
      [] name = "NEUTER" -> <<"N", "E", "U", "T", "E", "R">>
      [] name = "male" -> <<"m", "a", "l", "e">>
      [] name = "der" -> <<"d", "e", "r">>
      [] name = "die" -> <<"d", "i", "e">>
      [] name = "das" -> <<"d", "a", "s">>
      [] name = "den" -> <<"d", "e", "n">>
      [] name = "dem" -> <<"d", "e", "m">>
      [] name = "des" -> <<"d", "e", "s">>
      [] name = "ein" -> <<"e", "i", "n">>
      [] name = "eine" -> <<"e", "i", "n", "e">>
      [] name = "einen" -> <<"e", "i", "n", "e", "n">>
      [] name = "einem" -> <<"e", "i", "n", "e", "m">>
      [] name = "einer" -> <<"e", "i", "n", "e", "r">>
      [] name = "eines" -> <<"e", "i", "n", "e", "s">>
      [] name = " " -> <<" ">>
      [] name = "s" -> <<"s">>
      [] name = "es" -> <<"e", "s">>
      [] name = "ß" -> <<"ß">>
      [] name = "x" -> <<"x">>
      [] name = "z" -> <<"z">>
      [] name = "Arzt" -> <<"A", "r", "z", "t">>
      [] name = "Kind" -> <<"K", "i", "n", "d">>
      [] name = "Tisch" -> <<"T", "i", "s", "c", "h">>
      [] name = "Satz" -> <<"S", "a", "t", "z">>
      [] name = "Fluss" -> <<"F", "l", "u", "s", "s">>
      [] name = "Hauses" -> <<"H", "a", "u", "s", "e", "s">>
      [] name = " + ... + " -> <<" ", "+", " ", ".", ".", ".", " ", "+", " ">>
      [] name = " um 7 Uhr " -> <<" ", "u", "m", " ", "7", " ", "U", "h", "r", " ">>
      [] name = "." -> <<".">>
      [] name = "..., weil + Subject + ... + " -> <<".", ".", ".", ",", " ", "w", "e", "i", "l", " ", "+", " ", "S", "u", "b", "j", "e", "c", "t", " ", "+", " ", ".", ".", ".", " ", "+", " ">>
      [] name = "..., weil er um 7 Uhr " -> <<".", ".", ".", ",", " ", "w", "e", "i", "l", " ", "e", "r", " ", "u", "m", " ", "7", " ", "U", "h", "r", " ">>
      [] name = "Er " -> <<"E", "r", " ">>
      [] name = "Subject + " -> <<"S", "u", "b", "j", "e", "c", "t", " ", "+", " ">>
      [] name = "ab" -> <<"a", "b">>
      [] name = "an" -> <<"a", "n">>
      [] name = "ankommen" -> <<"a", "n", "k", "o", "m", "m", "e", "n">>
      [] name = "ansein" -> <<"a", "n", "s", "e", "i", "n">>
      [] name = "arbeiten" -> <<"a", "r", "b", "e", "i", "t", "e", "n">>
      [] name = "auf" -> <<"a", "u", "f">>
      [] name = "aufstehen" -> <<"a", "u", "f", "s", "t", "e", "h", "e", "n">>
      [] name = "aus" -> <<"a", "u", "s">>
      [] name = "bei" -> <<"b", "e", "i">>
      [] name = "bin" -> <<"b", "i", "n">>
      [] name = "bist" -> <<"b", "i", "s", "t">>
      [] name = "d" -> <<"d">>
      [] name = "darf" -> <<"d", "a", "r", "f">>
      [] name = "darfst" -> <<"d", "a", "r", "f", "s", "t">>
      [] name = "dürfen" -> <<"d", "ü", "r", "f", "e", "n">>
      [] name = "dürft" -> <<"d", "ü", "r", "f", "t">>
      [] name = "e" -> <<"e">>
      [] name = "en" -> <<"e", "n">>
      [] name = "finden" -> <<"f", "i", "n", "d", "e", "n">>
      [] name = "ge" -> <<"g", "e">>
      [] name = "gehabt" -> <<"g", "e", "h", "a", "b", "t">>
      [] name = "gewesen" -> <<"g", "e", "w", "e", "s", "e", "n">>
      [] name = "geworden" -> <<"g", "e", "w", "o", "r", "d", "e", "n">>
      [] name = "habe" -> <<"h", "a", "b", "e">>
      [] name = "haben" -> <<"h", "a", "b", "e", "n">>
      [] name = "habt" -> <<"h", "a", "b", "t">>
      [] name = "hast" -> <<"h", "a", "s", "t">>
      [] name = "hat" -> <<"h", "a", "t">>
      [] name = "hatte" -> <<"h", "a", "t", "t", "e">>
      [] name = "hatten" -> <<"h", "a", "t", "t", "e", "n">>
      [] name = "hattest" -> <<"h", "a", "t", "t", "e", "s", "t">>
      [] name = "hattet" -> <<"h", "a", "t", "t", "e", "t">>
      [] name = "her" -> <<"h", "e", "r">>
      [] name = "hin" -> <<"h", "i", "n">>
      [] name = "ist" -> <<"i", "s", "t">>
      [] name = "kann" -> <<"k", "a", "n", "n">>
      [] name = "kannst" -> <<"k", "a", "n", "n", "s", "t">>
      [] name = "kommen" -> <<"k", "o", "m", "m", "e", "n">>
      [] name = "können" -> <<"k", "ö", "n", "n", "e", "n">>
      [] name = "könnt" -> <<"k", "ö", "n", "n", "t">>
      [] name = "lernen" -> <<"l", "e", "r", "n", "e", "n">>
      [] name = "los" -> <<"l", "o", "s">>
      [] name = "machen" -> <<"m", "a", "c", "h", "e", "n">>
      [] name = "mag" -> <<"m", "a", "g">>
      [] name = "magst" -> <<"m", "a", "g", "s", "t">>
      [] name = "mit" -> <<"m", "i", "t">>
      [] name = "muss" -> <<"m", "u", "s", "s">>
      [] name = "musst" -> <<"m", "u", "s", "s", "t">>
      [] name = "mögen" -> <<"m", "ö", "g", "e", "n">>
      [] name = "mögt" -> <<"m", "ö", "g", "t">>
      [] name = "müssen" -> <<"m", "ü", "s", "s", "e", "n">>
      [] name = "müsst" -> <<"m", "ü", "s", "s", "t">>
      [] name = "n" -> <<"n">>
      [] name = "nach" -> <<"n", "a", "c", "h">>
      [] name = "rückkommen" -> <<"r", "ü", "c", "k", "k", "o", "m", "m", "e", "n">>
      [] name = "seid" -> <<"s", "e", "i", "d">>
      [] name = "sein" -> <<"s", "e", "i", "n">>
      [] name = "sind" -> <<"s", "i", "n", "d">>
      [] name = "soll" -> <<"s", "o", "l", "l">>
      [] name = "sollen" -> <<"s", "o", "l", "l", "e", "n">>
      [] name = "sollst" -> <<"s", "o", "l", "l", "s", "t">>
      [] name = "sollt" -> <<"s", "o", "l", "l", "t">>
      [] name = "st" -> <<"s", "t">>
      [] name = "stehen" -> <<"s", "t", "e", "h", "e", "n">>
      [] name = "t" -> <<"t">>
      [] name = "te" -> <<"t", "e">>
      [] name = "ten" -> <<"t", "e", "n">>
      [] name = "test" -> <<"t", "e", "s", "t">>
      [] name = "tet" -> <<"t", "e", "t">>
      [] name = "tun" -> <<"t", "u", "n">>
      [] name = "vor" -> <<"v", "o", "r">>
      [] name = "wandern" -> <<"w", "a", "n", "d", "e", "r", "n">>
      [] name = "war" -> <<"w", "a", "r">>
      [] name = "waren" -> <<"w", "a", "r", "e", "n">>
      [] name = "warst" -> <<"w", "a", "r", "s", "t">>
      [] name = "wart" -> <<"w", "a", "r", "t">>
      [] name = "weg" -> <<"w", "e", "g">>
      [] name = "weiter" -> <<"w", "e", "i", "t", "e", "r">>
      [] name = "werde" -> <<"w", "e", "r", "d", "e">>
      [] name = "werden" -> <<"w", "e", "r", "d", "e", "n">>
      [] name = "werdet" -> <<"w", "e", "r", "d", "e", "t">>
      [] name = "will" -> <<"w", "i", "l", "l">>
      [] name = "willst" -> <<"w", "i", "l", "l", "s", "t">>
      [] name = "wird" -> <<"w", "i", "r", "d">>
      [] name = "wirst" -> <<"w", "i", "r", "s", "t">>
      [] name = "wollen" -> <<"w", "o", "l", "l", "e", "n">>
      [] name = "wollt" -> <<"w", "o", "l", "l", "t">>
      [] name = "zu" -> <<"z", "u">>
      [] name = "zurück" -> <<"z", "u", "r", "ü", "c", "k">>
      [] name = "zurückkommen" -> <<"z", "u", "r", "ü", "c", "k", "k", "o", "m", "m", "e", "n">>
      [] name = "zusammen" -> <<"z", "u", "s", "a", "m", "m", "e", "n">>
      [] name = "öffnen" -> <<"ö", "f", "f", "n", "e", "n">>
      [] name = "nominative" -> <<"n", "o", "m", "i", "n", "a", "t", "i", "v", "e">>
      [] name = "accusative" -> <<"a", "c", "c", "u", "s", "a", "t", "i", "v", "e">>
      [] name = "dative" -> <<"d", "a", "t", "i", "v", "e">>
      [] name = "genitive" -> <<"g", "e", "n", "i", "t", "i", "v", "e">>
      [] name = "NOMINATIVE" -> <<"N", "O", "M", "I", "N", "A", "T", "I", "V", "E">>
      [] name = "Dativ" -> <<"D", "a", "t", "i", "v">>
      [] name = "invalid" -> <<"i", "n", "v", "a", "l", "i", "d">>
      [] name = "practice" -> <<"p", "r", "a", "c", "t", "i", "c", "e">>

\* s.lower()
Lower(s) == [i \in 1..Len(s) |-> LowerChar(s[i])]

\* x < y for two strings: the order of Python's str, by code point.
StrLess(x, y) ==
    \E i \in 1..(Len(x) + 1) :
        /\ i <= Len(y)
        /\ \A j \in 1..(i - 1) : x[j] = y[j]
        /\ (i = Len(x) + 1 \/ Ord(x[i]) < Ord(y[i]))

(* --------------------- difflib.get_close_matches ----------------------- *)

\* cutoff=0.6, in tenths
CutoffTenths == 6

Min(m, n) == IF m <= n THEN m ELSE n

\* The blocks <<i, j, k>> with a[i .. i+k-1] = b[j .. j+k-1] inside
\* a[alo .. ahi] and b[blo .. bhi].
Blocks(a, b, alo, ahi, blo, bhi) ==
    {t \in (alo..ahi) \X (blo..bhi) \X (1..Min(ahi - alo + 1, bhi - blo + 1)) :
        /\ t[1] + t[3] - 1 <= ahi
        /\ t[2] + t[3] - 1 <= bhi
        /\ \A d \in 0..(t[3] - 1) : a[t[1] + d] = b[t[2] + d]}

\* SequenceMatcher.find_longest_match: the longest block, of those the one
\* that starts earliest in a, of those the one that starts earliest in b.
FindLongestMatch(blocks) ==
    CHOOSE t \in blocks :
        \A u \in blocks :
            \/ u[3] < t[3]
            \/ u[3] = t[3] /\ t[1] < u[1]
            \/ u[3] = t[3] /\ t[1] = u[1] /\ t[2] <= u[2]

\* The sum of the sizes of SequenceMatcher.get_matching_blocks: the longest
\* block, then the same to its left and to its right.
RECURSIVE MatchingChars(_, _, _, _, _, _)
MatchingChars(a, b, alo, ahi, blo, bhi) ==
    LET blocks == Blocks(a, b, alo, ahi, blo, bhi)
    IN IF blocks = {} THEN 0
       ELSE LET m == FindLongestMatch(blocks)
            IN m[3] + MatchingChars(a, b, alo, m[1] - 1, blo, m[2] - 1)
                    + MatchingChars(a, b, m[1] + m[3], ahi, m[2] + m[3], bhi)

\* SequenceMatcher.ratio() of seq1 = a and seq2 = b as the fraction
\* 2 * matches / length: [num, den]; 1.0 when both are empty.
Ratio(a, b) ==
    IF Len(a) + Len(b) = 0 THEN [num |-> 1, den |-> 1]
    ELSE [num |-> 2 * MatchingChars(a, b, 1, Len(a), 1, Len(b)), den |-> Len(a) + Len(b)]

\* ratio >= cutoff
AtLeastCutoff(r) == 10 * r.num >= CutoffTenths * r.den

\* (ratio of x, x) < (ratio of y, y), the order heapq.nlargest compares by.
ScoredLess(word, x, y) ==
    LET rx == Ratio(x, word)
        ry == Ratio(y, word)
    IN \/ rx.num * ry.den < ry.num * rx.den
       \/ rx.num * ry.den = ry.num * rx.den /\ StrLess(x, y)

\* difflib.get_close_matches(word, possibilities, n=1, cutoff=0.6): the best
\* of the possibilities whose ratio reaches the cutoff, if there is one.
GetCloseMatches(word, possibilities) ==
    LET result == {x \in Range(possibilities) : AtLeastCutoff(Ratio(x, word))}
    IN IF result = {} THEN <<>>
       ELSE <<CHOOSE x \in result : \A y \in result : y = x \/ ScoredLess(word, y, x)>>

(* ------------------------ the `scenario` command ----------------------- *)

\* {n.lower(): n for n in avail}
RECURSIVE LowerMapFrom(_, _)
LowerMapFrom(lower_map, avail) ==
    IF avail = <<>> THEN lower_map
    ELSE LowerMapFrom(Set(lower_map, Lower(Chars(Head(avail))), Head(avail)), Tail(avail))

LowerMap(avail) == LowerMapFrom(<<>>, avail)

\* sorted(avail)
Sorted(avail) == SortSeq(avail, LAMBDA x, y : StrLess(Chars(x), Chars(y)))

\* Resolve with the bug of looking every name up in lower_map, a name that
\* is a key included.
ResolveLowerFirst(avail, scenario_type) ==
    LET lower_map == LowerMap(avail)
        key_lower == Lower(Chars(scenario_type))
    IN IF Has(lower_map, key_lower)
       THEN [known |-> TRUE, chosen |-> Get(lower_map, key_lower), suggestion |-> <<>>]
       ELSE [known |-> FALSE, chosen |-> scenario_type, suggestion |-> <<>>]

\* Resolve with the bug of taking the best possibility whatever its ratio.
ResolveAnyRatio(avail, scenario_type) ==
    LET lower_map == LowerMap(avail)
        key_lower == Lower(Chars(scenario_type))
        best == {x \in Range(Keys(lower_map)) :
                    \A y \in Range(Keys(lower_map)) : y = x \/ ScoredLess(key_lower, y, x)}
    IN IF scenario_type \in Range(avail)
       THEN [known |-> TRUE, chosen |-> scenario_type, suggestion |-> <<>>]
       ELSE IF Has(lower_map, key_lower)
       THEN [known |-> TRUE, chosen |-> Get(lower_map, key_lower), suggestion |-> <<>>]
       ELSE [known |-> FALSE, chosen |-> scenario_type,
             suggestion |-> [i \in 1..Cardinality(best) |-> Get(lower_map, CHOOSE x \in best : TRUE)]]

\* The validation of the requested scenario: the name itself if it is a key,
\* else the key with the same lower-cased form, else unknown, with the key
\* of the closest lower-cased key as suggestion.
Resolve(avail, scenario_type) ==
    LET lower_map == LowerMap(avail)
        key_lower == Lower(Chars(scenario_type))
        matches == GetCloseMatches(key_lower, Keys(lower_map))
    IN IF scenario_type \in Range(avail)
       THEN [known |-> TRUE, chosen |-> scenario_type, suggestion |-> <<>>]
       ELSE IF Has(lower_map, key_lower)
       THEN [known |-> TRUE, chosen |-> Get(lower_map, key_lower), suggestion |-> <<>>]
       ELSE [known |-> FALSE, chosen |-> scenario_type,
             suggestion |-> [i \in 1..Len(matches) |-> Get(lower_map, matches[i])]]

\* The printing of a scenario without --show calls .items() of its
\* vocabulary and iterates its useful_phrases.
PrintRaises(scenario) ==
    \/ ~IsDict(Get(scenario, "vocabulary"))
    \/ Get(scenario, "useful_phrases") = Null

\* The command `scenario` on the collection of its partner, with --export
\* and --export-all not given: what it reports.
CliOutcome(coll, scenario_type, list_scenarios, show) ==
    LET avail == Keys(coll)
        resolved == Resolve(avail, scenario_type)
        scenario == ScenarioOf(coll, resolved.chosen)
        base == [requested |-> scenario_type, outcome |-> "", chosen |-> "",
                 suggestion |-> <<>>, val |-> Null]
    IN IF list_scenarios
       THEN [base EXCEPT !.outcome = "listed", !.val = List(avail)]
       ELSE IF ~resolved.known
       THEN [base EXCEPT !.outcome = "unknown", !.suggestion = resolved.suggestion,
                         !.val = List(Sorted(avail))]
       ELSE IF scenario.raised
       THEN [base EXCEPT !.outcome = "raised", !.chosen = resolved.chosen]
       ELSE IF ~show /\ PrintRaises(scenario.val.d)
       THEN [base EXCEPT !.outcome = "print_raised", !.chosen = resolved.chosen]
       ELSE [base EXCEPT !.outcome = "scenario", !.chosen = resolved.chosen,
                         !.val = scenario.val]

\* Overlay files of the command: new names that differ in case or in a letter.
CliNames == {"Post", "post", "Pest"}

Wordlist ==
    Dict(<< <<"setting", Str("office")>>, <<"vocabulary", List(<<"die Post">>)>> >>)

CliValues == {List(<<"Guten Tag!">>), Dict(<<>>), NewScenario, Wordlist}

RECURSIVE CliDocsOfLen(_)
CliDocsOfLen(n) ==
    IF n = 0 THEN {<<>>}
    ELSE UNION {{Append(q, e) : e \in {x \in CliNames \X CliValues : ~Has(q, x[1])}} :
                q \in CliDocsOfLen(n - 1)}

CliFileContents ==
    {Missing, Invalid} \cup {Json(Dict(o)) : o \in UNION {CliDocsOfLen(n) : n \in 0..MaxOverlay}}

Requested ==
    {"Bäckerei", "bäckerei", "RESTAURANT", "Restauran", "Apothek",
     "Post", "post", "POST", "pst", "xyz", ""}

InitCli ==
    /\ scenarios_file \in {None, CustomPath}
    /\ append_lists \in BOOLEAN
    /\ \E read \in CliFileContents :
          fs = [p \in Paths |->
                   IF p = (IF scenarios_file = None THEN DefaultPath ELSE scenarios_file)
                   THEN read ELSE Missing]
    /\ pc = "cli"
    /\ scenarios = <<>>
    /\ log = <<>>
    /\ ret = NoRet
    /\ formality = None
    /\ conversation_history = <<>>
    /\ sent = <<>>
    /\ cli = NoCli
    /\ call = NoCall
    /\ out = NoOut

\* The command `scenario`: it constructs its partner, reports and exits.
CliScenario(scenario_type, list_scenarios, show) ==
    /\ pc = "cli"
    /\ LET loaded == LoadScenarios(scenarios_file, fs, append_lists)
       IN /\ scenarios' = loaded.value
          /\ log' = log \o loaded.warnings
          /\ cli' = CliOutcome(loaded.value, scenario_type, list_scenarios, show)
    /\ formality' = FORMAL
    /\ conversation_history' = <<>>
    /\ pc' = "exit"
    /\ UNCHANGED <<scenarios_file, append_lists, fs, ret, sent, call, out>>

NextCli == \E scenario_type \in Requested, list_scenarios, show \in BOOLEAN :
               CliScenario(scenario_type, list_scenarios, show)

SpecCli == InitCli /\ [][NextCli]_vars

(* ------------------- claims on the `scenario` command ------------------ *)

\* The keys of the collection with the lower-cased form of the name.
SameLower(name) ==
    {k \in Range(Keys(scenarios)) : Lower(Chars(k)) = Lower(Chars(name))}

\* The command went past the validation with the key it chose.
Resolved == cli.outcome \in {"scenario", "raised", "print_raised"}

\* C11: a requested name that is a key is looked up under that very key, also
\* when another key differs from it only in case; a requested name that is
\* no key but has the lower-cased form of a key is looked up under such a
\* key; the scenario reported is the one partner.scenario gives for the key.
C11_ExactThenLowerCased ==
    (pc = "exit" /\ cli.outcome # "listed") =>
        /\ cli.requested \in Range(Keys(scenarios)) =>
              Resolved /\ cli.chosen = cli.requested
        /\ (cli.requested \notin Range(Keys(scenarios)) /\ SameLower(cli.requested) # {}) =>
              Resolved /\ cli.chosen \in SameLower(cli.requested)
        /\ Resolved => cli.chosen \in Range(Keys(scenarios))
        /\ cli.outcome = "scenario" => cli.val = ScenarioOf(scenarios, cli.chosen).val

\* "POST" is no key: it resolves to a key spelt otherwise, while "Post" would
\* have been looked up as it is.
C11_Witness ==
    /\ pc = "exit"
    /\ cli.requested = "POST"
    /\ cli.outcome = "scenario"
    /\ cli.chosen = "Post"
    /\ cli.val = Dict(<< <<"dialogue", Str("Hi")>>, <<"english", Str("Hi")>>,
                         <<"setting", Str("office")>>, <<"vocabulary", Dict(<<>>)>>,
                         <<"useful_phrases", List(<<>>)>>, <<"cultural_tips", List(<<>>)>> >>)
    /\ Keys(scenarios) = <<"Bäckerei", "Apotheke", "Restaurant", "post", "Post">>

\* x's ratio to the lower-cased name is at most y's.
NoCloser(name, x, y) ==
    LET rx == Ratio(Lower(Chars(x)), Lower(Chars(name)))
        ry == Ratio(Lower(Chars(y)), Lower(Chars(name)))
    IN rx.num * ry.den <= ry.num * rx.den

\* The keys whose lower-cased form has a ratio of at least 0.6 to the
\* lower-cased name.
Close(name) ==
    {k \in Range(Keys(scenarios)) :
        LET r == Ratio(Lower(Chars(k)), Lower(Chars(name)))
        IN 10 * r.num >= 6 * r.den}

\* C12: a requested name with neither an exact nor a lower-cased match is
\* reported unknown, with no scenario; the suggestion is one key, whose ratio
\* is at least 0.6 and which no key beats, when there is such a key, and
\* there is no suggestion when no key reaches 0.6.
C12_UnknownWithSuggestion ==
    (pc = "exit" /\ cli.outcome # "listed") =>
        /\ cli.outcome = "unknown" <=> SameLower(cli.requested) = {}
        /\ cli.outcome = "unknown" =>
              /\ cli.chosen = ""
              /\ Len(cli.suggestion) = (IF Close(cli.requested) = {} THEN 0 ELSE 1)
              /\ \A i \in 1..Len(cli.suggestion) :
                    /\ cli.suggestion[i] \in Close(cli.requested)
                    /\ \A k \in Range(Keys(scenarios)) :
                          NoCloser(cli.requested, k, cli.suggestion[i])

C12_Witness ==
    /\ pc = "exit"
    /\ cli.requested = "Restauran"
    /\ cli.outcome = "unknown"
    /\ cli.suggestion = <<"Restaurant">>
    /\ Len(scenarios) = 5

\* C13: the command never ends in an exception of partner.scenario.
C13_LookupNeverRaises == pc = "exit" => cli.outcome # "raised"

(* --------------------------- the conversation -------------------------- *)

\* The content of the system prompt that depends on the partner's state
\* (the level is left at "A1").
SystemPrompt(f) == IF f = FORMAL THEN "Use Sie (formal) form" ELSE "Use du (informal) form"

\* What the completion request does: it fails, or it returns a message whose
\* content is None or a string.
Failure == [kind |-> "failure", content |-> ""]

NoContent == [kind |-> "none", content |-> ""]

Content(c) == [kind |-> "content", content |-> c]

Replies ==
    {Failure, NoContent} \cup
    {Content(c) : c \in {"", "Guten Tag!", "{\"german\": \"Hallo\", \"english\": \"Hello\"}",
                         "{\"english\": \"Hello\"}", "{\"german\": [\"Hallo\"]}",
                         "[\"Hallo\"]", "\"Hallo\"", "null"}}

\* json.loads(content) of the contents above: [ok, value], not ok for
\* JSONDecodeError.
Loads(content) ==
    CASE content = "{\"german\": \"Hallo\", \"english\": \"Hello\"}" ->
             [ok |-> TRUE, value |-> Dict(<< <<"german", Str("Hallo")>>, <<"english", Str("Hello")>> >>)]
      [] content = "{\"english\": \"Hello\"}" ->
             [ok |-> TRUE, value |-> Dict(<< <<"english", Str("Hello")>> >>)]
      [] content = "{\"german\": [\"Hallo\"]}" ->
             [ok |-> TRUE, value |-> Dict(<< <<"german", List(<<"Hallo">>)>> >>)]
      [] content = "[\"Hallo\"]" -> [ok |-> TRUE, value |-> List(<<"Hallo">>)]
      [] content = "\"Hallo\"" -> [ok |-> TRUE, value |-> Str("Hallo")]
      [] content = "null" -> [ok |-> TRUE, value |-> Null]
      [] OTHER -> [ok |-> FALSE, value |-> Null]

Apology ==
    Dict(<< <<"german", Str("Entschuldigung, ich habe das nicht verstanden. Können Sie das wiederholen?")>>,
            <<"english", Str("Sorry, I didn't understand. Can you repeat that?")>>,
            <<"error", Str("error")>> >>)

\* Messages with the bug of sending the whole history.
MessagesWholeHistory(f, history) ==
    <<[role |-> "system", content |-> Str(SystemPrompt(f))]>> \o history

\* The messages _generate_response sends: the system prompt and the last
\* five entries of the history.
Messages(f, history) ==
    <<[role |-> "system", content |-> Str(SystemPrompt(f))]>>
        \o SubSeq(history, IF Len(history) > 5 THEN Len(history) - 4 ELSE 1, Len(history))

\* What _generate_response returns for a reply of the completion request.
GenerateResponse(reply) ==
    IF reply.kind = "failure" THEN Apology
    ELSE IF reply.kind = "content" /\ reply.content # ""
    THEN IF Loads(reply.content).ok THEN Loads(reply.content).value
         ELSE Dict(<< <<"german", Str(reply.content)>>, <<"english", Str("")>>,
                      <<"grammar_notes", List(<<>>)>>, <<"cultural_tips", List(<<>>)>> >>)
    ELSE Dict(<< <<"german", Str("Entschuldigung")>>, <<"english", Str("Sorry")>>,
                 <<"grammar_notes", List(<<>>)>> >>)

UserInputs == {"Guten Morgen", ""}

\* chat(user_input): the user entry is appended before the request; a
\* response that is no dict has no .get, and chat raises after that entry.
Chat(user_input, reply) ==
    /\ pc = "ready"
    /\ LET asked == Append(conversation_history, [role |-> "user", content |-> Str(user_input)])
           response == GenerateResponse(reply)
       IN /\ sent' = Messages(formality, asked)
          /\ IF IsDict(response)
             THEN /\ conversation_history' =
                        Append(asked, [role |-> "assistant",
                                       content |-> GetOr(response.d, "german", Str(""))])
                  /\ ret' = [op |-> "chat", arg |-> user_input, raised |-> FALSE, val |-> response]
             ELSE /\ conversation_history' = asked
                  /\ ret' = [op |-> "chat", arg |-> user_input, raised |-> TRUE, val |-> Null]
    /\ UNCHANGED <<scenarios_file, append_lists, fs, pc, scenarios, log, formality, aside>>

\* switch_formality with the bug of toggling the formality.
SwitchedToggles(f, to_informal) == IF f = FORMAL THEN INFORMAL ELSE FORMAL

\* Formality.INFORMAL if to_informal else Formality.FORMAL
Switched(f, to_informal) == IF to_informal THEN INFORMAL ELSE FORMAL

\* switch_formality(to_informal)
SwitchFormality(to_informal) ==
    /\ pc = "ready"
    /\ formality' = Switched(formality, to_informal)
    /\ ret' = [op |-> "switch_formality", arg |-> IF to_informal THEN "True" ELSE "False",
               raised |-> FALSE,
               val |-> Dict(<< <<"new_formality", Str(formality')>>,
                               <<"explanation",
                                 Str(IF to_informal
                                     THEN "Switched to 'du' (informal) - use with friends, family, young people"
                                     ELSE "Switched to 'Sie' (formal) - use with strangers, officials, older people")>>,
                               <<"examples",
                                 List(IF to_informal
                                      THEN <<"Wie heißt du?", "Woher kommst du?", "Was machst du?">>
                                      ELSE <<"Wie heißen Sie?", "Woher kommen Sie?", "Was machen Sie?">>)>> >>)]
    /\ UNCHANGED <<scenarios_file, append_lists, fs, pc, scenarios, log,
                   conversation_history, sent, aside>>

\* The length of the history up to which the partner is asked to chat.
MaxPartnerHistory == 2

PartnerFileContents ==
    {Missing, Invalid,
     Json(Dict(<< <<"Post", NewScenario>>, <<"Bäckerei", Refinement>> >>)),
     Json(Dict(<< <<"Bäckerei", Str("geschlossen")>>, <<"Café", Dict(<<>>)>> >>))}

InitPartner ==
    /\ scenarios_file \in {None, CustomPath}
    /\ append_lists \in BOOLEAN
    /\ \E read \in PartnerFileContents :
          fs = [p \in Paths |->
                   IF p = (IF scenarios_file = None THEN DefaultPath ELSE scenarios_file)
                   THEN read ELSE Missing]
    /\ pc = "new"
    /\ scenarios = <<>>
    /\ log = <<>>
    /\ ret = NoRet
    /\ formality = None
    /\ conversation_history = <<>>
    /\ sent = <<>>
    /\ cli = NoCli
    /\ call = NoCall
    /\ out = NoOut

NextPartner ==
    \/ Construct
    \/ \E name \in LookupNames : Scenario(name)
    \/ AvailableScenarios
    \/ GetAllScenarios
    \/ \E user_input \in UserInputs, reply \in Replies :
          Len(conversation_history) < MaxPartnerHistory /\ Chat(user_input, reply)
    \/ \E to_informal \in BOOLEAN : SwitchFormality(to_informal)

SpecPartner == InitPartner /\ [][NextPartner]_vars

(* --------------------------- claims on the partner --------------------- *)

\* C14: once the partner is constructed, no step of scenario,
\* available_scenarios, get_all_scenarios, chat or switch_formality changes
\* the collection: names, order and values stay as they are.
C14_CollectionNeverChanges == [][pc = "ready" => scenarios' = scenarios]_vars

\* The overlay was merged, and lookups, a chat and a switch have happened.
C14_Witness ==
    /\ pc = "ready"
    /\ Keys(scenarios) = <<"Bäckerei", "Apotheke", "Restaurant", "Post">>
    /\ Len(conversation_history) = 2
    /\ formality = INFORMAL
    /\ ret.op = "scenario"
    /\ ret.arg = "NonExistent"

\* C16: a partner on which nothing was called yet is FORMAL; after
\* switch_formality(b) the formality is INFORMAL if b and FORMAL if not, and
\* new_formality of the result is the stored formality; a step of
\* switch_formality leaves the history and the collection as they are.
C16_SwitchFormality ==
    /\ [](/\ (pc = "ready" /\ ret = NoRet) => formality = FORMAL
          /\ ret.op = "switch_formality" =>
                /\ formality = (IF ret.arg = "True" THEN INFORMAL ELSE FORMAL)
                /\ Get(ret.val.d, "new_formality") = Str(formality))
    /\ [][(ret'.op = "switch_formality" /\ ret' # ret) =>
             /\ conversation_history' = conversation_history
             /\ scenarios' = scenarios]_vars

\* The partner was informal when it was last asked to chat, and is formal
\* after switch_formality(False).
C16_Witness ==
    /\ ret.op = "switch_formality"
    /\ ret.arg = "False"
    /\ formality = FORMAL
    /\ Len(conversation_history) = 2
    /\ sent[1].content = Str("Use du (informal) form")

\* C15: scenario(name) with a name that is no key of the collection returns
\* the setting, dialogue, english, vocabulary and phrases of the collection's
\* "Bäckerei" entry.
C15_FallbackIsBaeckerei ==
    (pc = "ready" /\ ret.op = "scenario" /\ ~Has(scenarios, ret.arg)) =>
        /\ ~ret.raised
        /\ IsDict(ret.val)
        /\ IsDict(Get(scenarios, "Bäckerei"))
        /\ \A f \in Shown \ {<<"cultural_tips", "cultural_tips">>} :
              /\ Has(ret.val.d, f[1])
              /\ Has(Get(scenarios, "Bäckerei").d, f[2]) =>
                    Get(ret.val.d, f[1]) = Get(Get(scenarios, "Bäckerei").d, f[2])

(* ------------------------- CasesTeacher articles ----------------------- *)

\* GermanCase, in the order of the enum
GermanCase == <<"nominative", "accusative", "dative", "genitive">>

\* Gender
Gender == {"masculine", "feminine", "neuter", "plural"}

\* self.articles["definite"][case][gender]
Definite(case, gender) ==
    CASE case = "nominative" ->
             (CASE gender = "masculine" -> "der" [] gender = "feminine" -> "die"
                [] gender = "neuter" -> "das" [] gender = "plural" -> "die")
      [] case = "accusative" ->
             (CASE gender = "masculine" -> "den" [] gender = "feminine" -> "die"
                [] gender = "neuter" -> "das" [] gender = "plural" -> "die")
      [] case = "dative" ->
             (CASE gender = "masculine" -> "dem" [] gender = "feminine" -> "der"
                [] gender = "neuter" -> "dem" [] gender = "plural" -> "den")
      [] case = "genitive" ->
             (CASE gender = "masculine" -> "des" [] gender = "feminine" -> "der"
                [] gender = "neuter" -> "des" [] gender = "plural" -> "der")

\* The dash (U+2014) that stands for the indefinite article of the plural.
Dash == <<"-">>

\* self.articles["indefinite"][case].get(gender, "—")
Indefinite(case, gender) ==
    IF gender = "plural" THEN Dash
    ELSE Chars(CASE case = "nominative" ->
                        (CASE gender = "masculine" -> "ein" [] gender = "feminine" -> "eine"
                           [] gender = "neuter" -> "ein")
                 [] case = "accusative" ->
                        (CASE gender = "masculine" -> "einen" [] gender = "feminine" -> "eine"
                           [] gender = "neuter" -> "ein")
                 [] case = "dative" ->
                        (CASE gender = "masculine" -> "einem" [] gender = "feminine" -> "einer"
                           [] gender = "neuter" -> "einem")
                 [] case = "genitive" ->
                        (CASE gender = "masculine" -> "eines" [] gender = "feminine" -> "einer"
                           [] gender = "neuter" -> "eines"))

\* s.endswith(suffix)
EndsWith(s, suffix) ==
    /\ Len(suffix) <= Len(s)
    /\ SubSeq(s, Len(s) - Len(suffix) + 1, Len(s)) = suffix

\* s.startswith(prefix)
StartsWith(s, prefix) ==
    /\ Len(prefix) <= Len(s)
    /\ SubSeq(s, 1, Len(prefix)) = prefix

\* NounForm with the bug of adding "s" to every genitive.
NounFormPlainS(noun, case, gender) ==
    IF case = "genitive" /\ gender \in {"masculine", "neuter"}
    THEN noun \o Chars("s") ELSE noun

\* The noun of a cell: noun endings change in the genitive of masculine and
\* neuter nouns.
NounForm(noun, case, gender) ==
    IF case = "genitive" /\ gender \in {"masculine", "neuter"}
    THEN IF \E e \in {"s", "ß", "x", "z"} : EndsWith(noun, Chars(e))
         THEN noun \o Chars("es")
         ELSE noun \o Chars("s")
    ELSE noun

\* The gender with the lower-cased characters of the argument, if there is one.
GenderOf(gender) == {g \in Gender : Chars(g) = Lower(Chars(gender))}

\* _get_gender_tip
GenderTip(gender) ==
    CASE gender = "masculine" -> "Many nouns ending in -er, -en, -el are masculine"
      [] gender = "feminine" -> "Most nouns ending in -ung, -heit, -keit are feminine"
      [] gender = "neuter" -> "Most nouns ending in -chen, -lein are neuter"
      [] gender = "plural" -> "Plural always uses 'die' in nominative/accusative"

\* practice_articles(noun, gender): the result, with the declension table as
\* the sequence of its entries <<case, cell>>.
PracticeArticlesOf(noun, gender) ==
    IF GenderOf(gender) = {}
    THEN [error |-> <<"Gender ", gender, " not found">>, noun |-> "", gender |-> "",
          declension_table |-> <<>>, tip |-> ""]
    ELSE LET gender_enum == CHOOSE g \in GenderOf(gender) : TRUE
             Cell(case) ==
                 LET noun_form == NounForm(Chars(noun), case, gender_enum)
                 IN [definite |-> Chars(Definite(case, gender_enum)) \o Chars(" ") \o noun_form,
                     indefinite |->
                         IF Indefinite(case, gender_enum) = Dash THEN Dash
                         ELSE Indefinite(case, gender_enum) \o Chars(" ") \o noun_form]
         IN [error |-> <<>>, noun |-> noun, gender |-> gender,
             declension_table |->
                 [i \in 1..Len(GermanCase) |-> <<GermanCase[i], Cell(GermanCase[i])>>],
             tip |-> GenderTip(gender_enum)]

Nouns ==
    {"Mann", "Haus", "Frau", "Kinder", "Fuß", "Bus", "Komplex", "Netz", "Arzt", "Kind",
     "Tisch", "Satz", "Fluss", ""}

GenderArgs == Gender \cup {"Masculine", "NEUTER", "male", ""}

InitCases ==
    /\ scenarios_file = None
    /\ append_lists = FALSE
    /\ fs = [p \in Paths |-> Missing]
    /\ pc = "teacher"
    /\ scenarios = <<>>
    /\ log = <<>>
    /\ ret = NoRet
    /\ formality = None
    /\ conversation_history = <<>>
    /\ sent = <<>>
    /\ cli = NoCli
    /\ call = NoCall
    /\ out = NoOut

\* teacher.practice_articles(noun, gender)
PracticeArticles(noun, gender) ==
    /\ pc = "teacher"
    /\ call' = [op |-> "practice_articles", noun |-> noun, gender |-> gender]
    /\ out' = [op |-> "practice_articles", result |-> PracticeArticlesOf(noun, gender)]
    /\ UNCHANGED <<scenarios_file, append_lists, fs, pc, scenarios, log, ret, talk, cli>>

NextCases == \E noun \in Nouns, gender \in GenderArgs : PracticeArticles(noun, gender)

SpecCases == InitCases /\ [][NextCases]_vars

(* ------------------------ claims on the teachers ----------------------- *)

\* The noun of a cell as the claim states it.
Suffixed(noun, case, gender) ==
    IF case = "genitive" /\ gender \in {"masculine", "neuter"}
    THEN IF noun # <<>> /\ noun[Len(noun)] \in {"s", "ß", "x", "z"}
         THEN noun \o <<"e", "s">>
         ELSE noun \o <<"s">>
    ELSE noun

\* The result holds the table of the noun for the gender: the four cases,
\* each definite form the article, a space and the noun of the cell.
TableFor(result, noun, gender) ==
    /\ result.error = <<>>
    /\ Keys(result.declension_table) = <<"nominative", "accusative", "dative", "genitive">>
    /\ \A i \in 1..Len(result.declension_table) :
          LET case == result.declension_table[i][1]
          IN result.declension_table[i][2].definite =
                 Chars(Definite(case, gender)) \o <<" ">> \o Suffixed(Chars(noun), case, gender)

ErrorResult(result) == result.error # <<>> /\ result.declension_table = <<>>

\* C17 as stated: each of the four genders gives its table, every other
\* gender argument an error result with no table.
C17_ArticlesTable ==
    out.op = "practice_articles" =>
        IF call.gender \in Gender
        THEN TableFor(out.result, call.noun, call.gender)
        ELSE ErrorResult(out.result)

\* C17: a gender argument whose lower-cased form is one of the four genders
\* gives the table of that gender, every other argument an error result
\* with no table.
C17_ArticlesTableLowerCased ==
    out.op = "practice_articles" =>
        /\ \A g \in Gender :
              Lower(Chars(call.gender)) = Chars(g) => TableFor(out.result, call.noun, g)
        /\ (\A g \in Gender : Lower(Chars(call.gender)) # Chars(g)) => ErrorResult(out.result)

C17_Witness ==
    /\ out.op = "practice_articles"
    /\ call.noun = "Haus"
    /\ call.gender = "NEUTER"
    /\ out.result.error = <<>>
    /\ out.result.declension_table[4][1] = "genitive"
    /\ out.result.declension_table[4][2].definite = Chars("des") \o <<" ">> \o Chars("Hauses")

(* ---------------------------- VerbConjugator --------------------------- *)

\* self.weak_endings: the endings of a tense by pronoun; the entry of
\* "perfect_participle" is a string.
WeakEndings ==
    << <<"present", Dict(<< <<"ich", "e">>, <<"du", "st">>, <<"er/sie/es", "t">>,
                             <<"wir", "en">>, <<"ihr", "t">>, <<"sie/Sie", "en">> >>)>>,
       <<"preterite", Dict(<< <<"ich", "te">>, <<"du", "test">>, <<"er/sie/es", "te">>,
                               <<"wir", "ten">>, <<"ihr", "tet">>, <<"sie/Sie", "ten">> >>)>>,
       <<"perfect_participle", Str("ge-{stem}-t")>> >>

\* self.strong_verbs: conjugations by tense, partizip_2 and auxiliary_verb.
StrongVerbs ==
    << <<"sein",
          [conjugations |->
               << <<"present", << <<"ich", "bin">>, <<"du", "bist">>, <<"er/sie/es", "ist">>,
                                  <<"wir", "sind">>, <<"ihr", "seid">>, <<"sie/Sie", "sind">> >>>>,
                  <<"preterite", << <<"ich", "war">>, <<"du", "warst">>, <<"er/sie/es", "war">>,
                                    <<"wir", "waren">>, <<"ihr", "wart">>, <<"sie/Sie", "waren">> >>>> >>,
           partizip_2 |-> "gewesen", auxiliary_verb |-> "sein"]>>,
       <<"haben",
          [conjugations |->
               << <<"present", << <<"ich", "habe">>, <<"du", "hast">>, <<"er/sie/es", "hat">>,
                                  <<"wir", "haben">>, <<"ihr", "habt">>, <<"sie/Sie", "haben">> >>>>,
                  <<"preterite", << <<"ich", "hatte">>, <<"du", "hattest">>, <<"er/sie/es", "hatte">>,
                                    <<"wir", "hatten">>, <<"ihr", "hattet">>, <<"sie/Sie", "hatten">> >>>> >>,
           partizip_2 |-> "gehabt", auxiliary_verb |-> "haben"]>>,
       <<"werden",
          [conjugations |->
               << <<"present", << <<"ich", "werde">>, <<"du", "wirst">>, <<"er/sie/es", "wird">>,
                                  <<"wir", "werden">>, <<"ihr", "werdet">>, <<"sie/Sie", "werden">> >>>> >>,
           partizip_2 |-> "geworden", auxiliary_verb |-> "sein"]>> >>

\* self.modal_verbs: conjugations by tense.
ModalVerbs ==
    << <<"können",
          << <<"present", << <<"ich", "kann">>, <<"du", "kannst">>, <<"er/sie/es", "kann">>,
                             <<"wir", "können">>, <<"ihr", "könnt">>, <<"sie/Sie", "können">> >>>> >> >>,
       <<"müssen",
          << <<"present", << <<"ich", "muss">>, <<"du", "musst">>, <<"er/sie/es", "muss">>,
                             <<"wir", "müssen">>, <<"ihr", "müsst">>, <<"sie/Sie", "müssen">> >>>> >> >>,
       <<"wollen",
          << <<"present", << <<"ich", "will">>, <<"du", "willst">>, <<"er/sie/es", "will">>,
                             <<"wir", "wollen">>, <<"ihr", "wollt">>, <<"sie/Sie", "wollen">> >>>> >> >>,
       <<"sollen",
          << <<"present", << <<"ich", "soll">>, <<"du", "sollst">>, <<"er/sie/es", "soll">>,
                             <<"wir", "sollen">>, <<"ihr", "sollt">>, <<"sie/Sie", "sollen">> >>>> >> >>,
       <<"dürfen",
          << <<"present", << <<"ich", "darf">>, <<"du", "darfst">>, <<"er/sie/es", "darf">>,
                             <<"wir", "dürfen">>, <<"ihr", "dürft">>, <<"sie/Sie", "dürfen">> >>>> >> >>,
       <<"mögen",
          << <<"present", << <<"ich", "mag">>, <<"du", "magst">>, <<"er/sie/es", "mag">>,
                             <<"wir", "mögen">>, <<"ihr", "mögt">>, <<"sie/Sie", "mögen">> >>>> >> >> >>

\* self.separable_prefixes
SeparablePrefixes ==
    <<"ab", "an", "auf", "aus", "bei", "ein", "los", "mit", "nach",
      "her", "hin", "vor", "weg", "zu", "zurück", "zusammen", "weiter">>

\* The key of a table whose characters are the string s, if there is one.
KeyOf(table, s) == {k \in Range(Keys(table)) : Chars(k) = s}

\* _get_stem
GetStem(infinitive) ==
    IF EndsWith(infinitive, Chars("en")) THEN SubSeq(infinitive, 1, Len(infinitive) - 2)
    ELSE IF EndsWith(infinitive, Chars("n")) THEN SubSeq(infinitive, 1, Len(infinitive) - 1)
    ELSE infinitive

\* WeakForm with the bug of inserting "e" after a stem in t, d or n before
\* every ending.
WeakFormAlwaysE(stem, ending) ==
    IF \E c \in {"t", "d", "n"} : EndsWith(stem, Chars(c))
    THEN stem \o Chars("e") \o Chars(ending)
    ELSE stem \o Chars(ending)

\* The form of a weak verb: an "e" goes between a stem in t, d or n and an
\* ending that starts with "st" or "t".
WeakForm(stem, ending) ==
    IF /\ \E c \in {"t", "d", "n"} : EndsWith(stem, Chars(c))
       /\ \E p \in {"st", "t"} : StartsWith(Chars(ending), Chars(p))
    THEN stem \o Chars("e") \o Chars(ending)
    ELSE stem \o Chars(ending)

\* The stored forms as strings.
Stored(forms) == [i \in 1..Len(forms) |-> <<forms[i][1], Chars(forms[i][2])>>]

\* StrongHas with the bug of knowing the present tense only.
StrongHasPresent(infinitive, tense) ==
    /\ KeyOf(StrongVerbs, infinitive) # {}
    /\ tense = "present"

\* infinitive in self.strong_verbs and tense in verb.conjugations
StrongHas(infinitive, tense) ==
    /\ KeyOf(StrongVerbs, infinitive) # {}
    /\ Has(Get(StrongVerbs, CHOOSE k \in KeyOf(StrongVerbs, infinitive) : TRUE).conjugations, tense)

\* infinitive in self.modal_verbs and tense in self.modal_verbs[infinitive]
ModalHas(infinitive, tense) ==
    /\ KeyOf(ModalVerbs, infinitive) # {}
    /\ Has(Get(ModalVerbs, CHOOSE k \in KeyOf(ModalVerbs, infinitive) : TRUE), tense)

\* conjugate(infinitive, tense): the result, with "" and <<>> for the keys a
\* result does not have; endings that are a string have no .items(), and
\* conjugate raises.
ConjugateOf(infinitive, tense) ==
    LET base == [raised |-> FALSE, infinitive |-> infinitive, tense |-> tense, forms |-> <<>>,
                 type |-> "", auxiliary |-> "", participle |-> <<>>]
        stem == GetStem(infinitive)
        endings == GetOr(WeakEndings, tense, Dict(<<>>))
    IN IF StrongHas(infinitive, tense)
       THEN LET verb == Get(StrongVerbs, CHOOSE k \in KeyOf(StrongVerbs, infinitive) : TRUE)
            IN [base EXCEPT !.forms = Stored(Get(verb.conjugations, tense)),
                            !.type = "strong",
                            !.auxiliary = verb.auxiliary_verb,
                            !.participle = Chars(verb.partizip_2)]
       ELSE IF ModalHas(infinitive, tense)
       THEN LET modal == Get(ModalVerbs, CHOOSE k \in KeyOf(ModalVerbs, infinitive) : TRUE)
            IN [base EXCEPT !.forms = Stored(Get(modal, tense)), !.type = "modal"]
       ELSE IF ~IsDict(endings)
       THEN [base EXCEPT !.raised = TRUE]
       ELSE [base EXCEPT !.forms = [i \in 1..Len(endings.d) |->
                                       <<endings.d[i][1], WeakForm(stem, endings.d[i][2])>>],
                         !.type = "weak",
                         !.auxiliary = "haben",
                         !.participle = Chars("ge") \o stem \o Chars("t")]

\* The prefixes, in list order, that the verb starts with.
Starting(verb) ==
    SelectSeq(SeparablePrefixes, LAMBDA sep_prefix : StartsWith(verb, Chars(sep_prefix)))

\* FoundPrefix with the bug of taking the longest prefix.
FoundLongestPrefix(verb) ==
    LET found == Starting(verb)
    IN IF found = <<>> THEN <<>>
       ELSE <<CHOOSE p \in Range(found) :
                \A o \in Range(found) : Len(Chars(o)) <= Len(Chars(p))>>

\* The prefix handle_separable finds: the first of the list that the verb
\* starts with, if there is one.
FoundPrefix(verb) ==
    LET found == Starting(verb)
    IN IF found = <<>> THEN <<>> ELSE <<Head(found)>>

\* handle_separable(verb, sentence_type): the result, with "" and <<>> for
\* the keys an error result does not have.
HandleSeparableOf(verb, sentence_type) ==
    LET found == FoundPrefix(verb)
        none == [error |-> "", verb |-> <<>>, prefix |-> "", base_verb |-> <<>>,
                 sentence_type |-> "", examples |-> <<>>, rule |-> ""]
    IN IF found = <<>> THEN [none EXCEPT !.error = "Not a separable verb"]
       ELSE LET prefix == found[1]
                base_verb == SubSeq(verb, Len(Chars(prefix)) + 1, Len(verb))
                conjugated == ConjugateOf(base_verb, "present")
                form == Get(conjugated.forms, "er/sie/es")
            IN [none EXCEPT
                  !.verb = verb,
                  !.prefix = prefix,
                  !.base_verb = base_verb,
                  !.sentence_type = sentence_type,
                  !.examples =
                      IF sentence_type = "main_clause"
                      THEN <<[structure |-> Chars("Subject + ") \o form \o Chars(" + ... + ")
                                                \o Chars(prefix),
                              example |-> Chars("Er ") \o form \o Chars(" um 7 Uhr ")
                                              \o Chars(prefix) \o Chars("."),
                              english |-> "He gets up at 7 o'clock."]>>
                      ELSE <<[structure |-> Chars("..., weil + Subject + ... + ")
                                                \o Chars(prefix) \o form,
                              example |-> Chars("..., weil er um 7 Uhr ") \o Chars(prefix)
                                              \o form \o Chars("."),
                              english |-> "..., because he gets up at 7 o'clock."]>>,
                  !.rule = "In main clauses, prefix goes to end. In subordinate clauses, verb stays together."]

Infinitives ==
    {"machen", "arbeiten", "finden", "öffnen", "wandern", "tun", "lernen", "sein", "haben",
     "werden", "können", "müssen", "wollen", "sollen", "dürfen", "mögen", "aufstehen",
     "zurückkommen", "ankommen", "ansein", "ab", ""}

Tenses == {"present", "preterite", "perfect_participle", "future"}

SentenceTypes == {"main_clause", "subordinate_clause"}

InitVerbs ==
    /\ scenarios_file = None
    /\ append_lists = FALSE
    /\ fs = [p \in Paths |-> Missing]
    /\ pc = "conjugator"
    /\ scenarios = <<>>
    /\ log = <<>>
    /\ ret = NoRet
    /\ formality = None
    /\ conversation_history = <<>>
    /\ sent = <<>>
    /\ cli = NoCli
    /\ call = NoCall
    /\ out = NoOut

\* conjugator.conjugate(infinitive, tense)
Conjugate(infinitive, tense) ==
    /\ pc = "conjugator"
    /\ call' = [op |-> "conjugate", verb |-> infinitive, arg |-> tense]
    /\ out' = [op |-> "conjugate", result |-> ConjugateOf(Chars(infinitive), tense)]
    /\ UNCHANGED <<scenarios_file, append_lists, fs, pc, scenarios, log, ret, talk, cli>>

\* conjugator.handle_separable(verb, sentence_type)
HandleSeparable(verb, sentence_type) ==
    /\ pc = "conjugator"
    /\ call' = [op |-> "handle_separable", verb |-> verb, arg |-> sentence_type]
    /\ out' = [op |-> "handle_separable", result |-> HandleSeparableOf(Chars(verb), sentence_type)]
    /\ UNCHANGED <<scenarios_file, append_lists, fs, pc, scenarios, log, ret, talk, cli>>

NextVerbs ==
    \/ \E infinitive \in Infinitives, tense \in Tenses : Conjugate(infinitive, tense)
    \/ \E verb \in Infinitives, sentence_type \in SentenceTypes :
          HandleSeparable(verb, sentence_type)

SpecVerbs == InitVerbs /\ [][NextVerbs]_vars

(* ----------------------- claims on the conjugator ---------------------- *)

\* The infinitives of the strong-verb table and of the modal table.
Irregular == {"sein", "haben", "werden", "können", "müssen", "wollen", "sollen", "dürfen", "mögen"}

\* The stem as the claim states it.
StemOf(w) ==
    IF Len(w) >= 2 /\ w[Len(w) - 1] = "e" /\ w[Len(w)] = "n" THEN SubSeq(w, 1, Len(w) - 2)
    ELSE IF Len(w) >= 1 /\ w[Len(w)] = "n" THEN SubSeq(w, 1, Len(w) - 1)
    ELSE w

\* An "e" goes between the stem and the ending.
Linked(stem, ending) ==
    /\ stem # <<>> /\ stem[Len(stem)] \in {"t", "d", "n"}
    /\ \/ Len(ending) >= 1 /\ ending[1] = "t"
       \/ Len(ending) >= 2 /\ ending[1] = "s" /\ ending[2] = "t"

\* C18: for an infinitive of neither table and the tenses present and
\* preterite, conjugate returns six forms, each the stem, an "e" exactly when
\* the stem ends in t, d or n and the ending starts with "t" or "st", and the
\* ending of the pronoun.
C18_WeakForms ==
    (out.op = "conjugate" /\ call.verb \notin Irregular /\ call.arg \in {"present", "preterite"}) =>
        LET stem == StemOf(Chars(call.verb))
            endings == Get(WeakEndings, call.arg).d
        IN /\ ~out.result.raised
           /\ Keys(out.result.forms) = <<"ich", "du", "er/sie/es", "wir", "ihr", "sie/Sie">>
           /\ \A i \in 1..Len(out.result.forms) :
                 LET ending == Chars(Get(endings, out.result.forms[i][1]))
                 IN out.result.forms[i][2] =
                        stem \o (IF Linked(stem, ending) THEN <<"e">> ELSE <<>>) \o ending

\* du arbeitest, ihr arbeitet, wir arbeiten
C18_Witness ==
    /\ out.op = "conjugate"
    /\ call.verb = "arbeiten"
    /\ call.arg = "present"
    /\ out.result.forms[2] = <<"du", <<"a", "r", "b", "e", "i", "t", "e", "s", "t">> >>
    /\ out.result.forms[4] = <<"wir", <<"a", "r", "b", "e", "i", "t", "e", "n">> >>

\* The (verb, tense) pairs the two tables store.
StrongPairs == ({"sein", "haben"} \X {"present", "preterite"}) \cup {<<"werden", "present">>}

ModalPairs == {"können", "müssen", "wollen", "sollen", "dürfen", "mögen"} \X {"present"}

\* C19: a (verb, tense) pair of the strong-verb table gives type "strong" and
\* the stored forms, a pair of the modal table type "modal" and the stored
\* forms, and the result is weak only for a pair of neither table.
C19_TablesFirst ==
    out.op = "conjugate" =>
        /\ <<call.verb, call.arg>> \in StrongPairs =>
              /\ out.result.type = "strong"
              /\ out.result.forms = Stored(Get(Get(StrongVerbs, call.verb).conjugations, call.arg))
        /\ <<call.verb, call.arg>> \in ModalPairs =>
              /\ out.result.type = "modal"
              /\ out.result.forms = Stored(Get(Get(ModalVerbs, call.verb), call.arg))
        /\ <<call.verb, call.arg>> \notin StrongPairs \cup ModalPairs =>
              out.result.raised \/ out.result.type = "weak"
        /\ out.result.type = "weak" => <<call.verb, call.arg>> \notin StrongPairs \cup ModalPairs

\* ich war
C19_Witness ==
    /\ out.op = "conjugate"
    /\ call.verb = "sein"
    /\ call.arg = "preterite"
    /\ out.result.type = "strong"
    /\ out.result.forms[1] = <<"ich", <<"w", "a", "r">> >>

\* The places in the list of the prefixes the verb starts with.
Places(verb) ==
    {i \in 1..Len(SeparablePrefixes) :
        LET p == Chars(SeparablePrefixes[i])
        IN Len(p) <= Len(verb) /\ \A j \in 1..Len(p) : verb[j] = p[j]}

\* C20: handle_separable returns an error result exactly for a verb that
\* starts with no prefix of the list; otherwise the prefix is the first of
\* the list that the verb starts with, prefix and base_verb make up the verb,
\* and the example holds the er/sie/es present form of the base verb, in a
\* main clause before and in any other clause after the prefix.
C20_FirstPrefix ==
    out.op = "handle_separable" =>
        LET verb == Chars(call.verb)
            r == out.result
            form == Get(ConjugateOf(r.base_verb, "present").forms, "er/sie/es")
        IN /\ r.error # "" <=> Places(verb) = {}
           /\ Places(verb) # {} =>
                 /\ r.prefix = SeparablePrefixes[CHOOSE i \in Places(verb) :
                                                    \A j \in Places(verb) : i <= j]
                 /\ Chars(r.prefix) \o r.base_verb = verb
                 /\ Len(r.examples) = 1
                 /\ r.examples[1].example =
                        IF call.arg = "main_clause"
                        THEN Chars("Er ") \o form \o Chars(" um 7 Uhr ") \o Chars(r.prefix) \o <<".">>
                        ELSE Chars("..., weil er um 7 Uhr ") \o Chars(r.prefix) \o form \o <<".">>

\* Er steht um 7 Uhr auf.
C20_Witness ==
    /\ out.op = "handle_separable"
    /\ call.verb = "aufstehen"
    /\ call.arg = "main_clause"
    /\ out.result.prefix = "auf"
    /\ out.result.base_verb = <<"s", "t", "e", "h", "e", "n">>
    /\ out.result.examples[1].example =
           <<"E", "r", " ", "s", "t", "e", "h", "t", " ", "u", "m", " ", "7", " ", "U", "h", "r",
             " ", "a", "u", "f", ".">>

(* -------------------------------- the API ------------------------------ *)

\* self.cases: function, question and explanation of a case (the examples
\* and the tips, constant lists, are left out).
Cases(case) ==
    CASE case = "nominative" ->
             [function |-> "Subject of the sentence",
              question |-> "Wer? Was? (Who? What?)",
              explanation |-> "The nominative case marks the subject - the person or thing doing the action"]
      [] case = "accusative" ->
             [function |-> "Direct object of the sentence",
              question |-> "Wen? Was? (Whom? What?)",
              explanation |-> "The accusative case marks the direct object - what is being acted upon"]
      [] case = "dative" ->
             [function |-> "Indirect object of the sentence",
              question |-> "Wem? (To/For whom?)",
              explanation |-> "The dative case marks the indirect object - to whom or for whom"]
      [] case = "genitive" ->
             [function |-> "Shows possession or relationship",
              question |-> "Wessen? (Whose?)",
              explanation |-> "The genitive case shows possession or close relationship"]

\* The case with the lower-cased characters of the argument, if there is one.
CaseOf(case) == {c \in Range(GermanCase) : Chars(c) = Lower(Chars(case))}

\* explain_case(case)
ExplainCaseOf(case) ==
    IF CaseOf(case) = {}
    THEN [error |-> <<"Case ", case, " not found">>, case |-> "", explanation |-> "",
          function |-> "", question |-> ""]
    ELSE LET case_enum == CHOOSE c \in CaseOf(case) : TRUE
         IN [error |-> <<>>, case |-> case, explanation |-> Cases(case_enum).explanation,
             function |-> Cases(case_enum).function, question |-> Cases(case_enum).question]

\* Respond with the bug of catching the HTTPException of an error result
\* with the other exceptions.
RespondAllCaught(raises, has_error, error_status, result) ==
    IF raises \/ has_error THEN [status |-> 500, body |-> <<>>]
    ELSE [status |-> 200, body |-> <<result>>]

\* The response of an endpoint whose teacher raises or returns the result:
\* the HTTPException of an error result passes through, any other exception
\* becomes a 500.
Respond(raises, has_error, error_status, result) ==
    IF raises THEN [status |-> 500, body |-> <<>>]
    ELSE IF has_error THEN [status |-> error_status, body |-> <<>>]
    ELSE [status |-> 200, body |-> <<result>>]

\* The teachers of the application, and teachers replaced by a function
\* that raises.
Teachers == {"teacher", "raises"}

CaseArgs == {"nominative", "accusative", "dative", "genitive", "NOMINATIVE", "Dativ",
             "invalid", "practice", ""}

InitApi ==
    /\ scenarios_file = None
    /\ append_lists = FALSE
    /\ fs = [p \in Paths |-> Missing]
    /\ pc = "api"
    /\ scenarios = <<>>
    /\ log = <<>>
    /\ ret = NoRet
    /\ formality = None
    /\ conversation_history = <<>>
    /\ sent = <<>>
    /\ cli = NoCli
    /\ call = NoCall
    /\ out = NoOut

\* GET /api/v1/cases/{case}
ExplainCaseEndpoint(teacher, case) ==
    /\ pc = "api"
    /\ call' = [op |-> "GET /api/v1/cases/{case}", teacher |-> teacher, case |-> case]
    /\ LET explanation == ExplainCaseOf(case)
       IN out' = [op |-> "GET /api/v1/cases/{case}",
                  response |-> Respond(teacher = "raises", explanation.error # <<>>, 404,
                                       explanation)]
    /\ UNCHANGED <<scenarios_file, append_lists, fs, pc, scenarios, log, ret, talk, cli>>

\* POST /api/v1/cases/practice
PracticeArticlesEndpoint(teacher, noun, gender) ==
    /\ pc = "api"
    /\ call' = [op |-> "POST /api/v1/cases/practice", teacher |-> teacher,
                noun |-> noun, gender |-> gender]
    /\ LET practice == PracticeArticlesOf(noun, gender)
       IN out' = [op |-> "POST /api/v1/cases/practice",
                  response |-> Respond(teacher = "raises", practice.error # <<>>, 400, practice)]
    /\ UNCHANGED <<scenarios_file, append_lists, fs, pc, scenarios, log, ret, talk, cli>>

\* GET /api/v1/verbs/separable/{verb}
HandleSeparableVerbEndpoint(teacher, verb, sentence_type) ==
    /\ pc = "api"
    /\ call' = [op |-> "GET /api/v1/verbs/separable/{verb}", teacher |-> teacher,
                verb |-> verb, sentence_type |-> sentence_type]
    /\ LET result == HandleSeparableOf(Chars(verb), sentence_type)
       IN out' = [op |-> "GET /api/v1/verbs/separable/{verb}",
                  response |-> Respond(teacher = "raises", result.error # "", 400, result)]
    /\ UNCHANGED <<scenarios_file, append_lists, fs, pc, scenarios, log, ret, talk, cli>>

NextApi ==
    \/ \E teacher \in Teachers, case \in CaseArgs : ExplainCaseEndpoint(teacher, case)
    \/ \E teacher \in Teachers, noun \in {"Mann", "Haus", "Fuß"}, gender \in GenderArgs :
          PracticeArticlesEndpoint(teacher, noun, gender)
    \/ \E teacher \in Teachers, verb \in Infinitives, sentence_type \in SentenceTypes :
          HandleSeparableVerbEndpoint(teacher, verb, sentence_type)

SpecApi == InitApi /\ [][NextApi]_vars

\* C21: with a teacher that raises the status is 500; otherwise it is 404
\* for a case that is none of the four, 400 for a gender that is none of the
\* four and for a verb that starts with no separable prefix, and 200 with
\* the teacher's result in every other request.
C21_StatusMapping ==
    /\ out.op = "GET /api/v1/cases/{case}" =>
          out.response =
              IF call.teacher = "raises" THEN [status |-> 500, body |-> <<>>]
              ELSE IF \A c \in {"nominative", "accusative", "dative", "genitive"} :
                         Lower(Chars(call.case)) # Chars(c)
              THEN [status |-> 404, body |-> <<>>]
              ELSE [status |-> 200, body |-> <<ExplainCaseOf(call.case)>>]
    /\ out.op = "POST /api/v1/cases/practice" =>
          out.response =
              IF call.teacher = "raises" THEN [status |-> 500, body |-> <<>>]
              ELSE IF \A g \in Gender : Lower(Chars(call.gender)) # Chars(g)
              THEN [status |-> 400, body |-> <<>>]
              ELSE [status |-> 200, body |-> <<PracticeArticlesOf(call.noun, call.gender)>>]
    /\ out.op = "GET /api/v1/verbs/separable/{verb}" =>
          out.response =
              IF call.teacher = "raises" THEN [status |-> 500, body |-> <<>>]
              ELSE IF Places(Chars(call.verb)) = {}
              THEN [status |-> 400, body |-> <<>>]
              ELSE [status |-> 200,
                    body |-> <<HandleSeparableOf(Chars(call.verb), call.sentence_type)>>]

\* The real teacher reports an invalid gender: 400, not 500.
C21_Witness ==
    /\ out.op = "POST /api/v1/cases/practice"
    /\ call.teacher = "teacher"
    /\ call.gender = "male"
    /\ out.response.status = 400

(* ---------------------- the `scenarios-merge` command ------------------ *)

\* --from and --to (the default of --to is media/scenarios.json)
FromFile == CustomPath

ToFile == DefaultPath

\* The documents of the two files: at most one entry of the overlay inputs,
\* an empty string under a name, or two entries.
MergeDocs ==
    {<<>>} \cup {<<e>> : e \in Entries \cup {<<"Post", Str("")>>}}
        \cup {<< <<"Post", NewScenario>>, <<"Bäckerei", Refinement>> >>,
              << <<"Café", List(<<"Guten Tag!">>)>>, <<"Post", Dict(<<>>)>> >>}

SourceContents ==
    {Missing, Denied, Invalid} \cup {Json(v) : v \in NonObjects}
        \cup {Json(Dict(o)) : o \in MergeDocs}

TargetContents ==
    {Missing, Invalid} \cup {Json(v) : v \in NonObjects} \cup {Json(Dict(o)) : o \in MergeDocs}

\* The command as it would be if it wrote the loaded collection to the target
\* before it read the source.
ScenariosMergeWritesFirst(files, append) ==
    LET base == LoadScenarios(ToFile, files, append).value
        data == files[FromFile].doc
        merged == MergeScenarios(base, data.d, append)
        written == [files EXCEPT ![ToFile] = Json(Dict(base))]
    IN IF files[FromFile].kind = "missing" THEN [outcome |-> "exit", files |-> files]
       ELSE IF files[FromFile].kind \in {"denied", "invalid"}
       THEN [outcome |-> "exit", files |-> written]
       ELSE IF ~IsDict(data) THEN [outcome |-> "raised", files |-> written]
       ELSE IF merged.raised THEN [outcome |-> "raised", files |-> written]
       ELSE [outcome |-> "merged",
             files |-> [files EXCEPT ![ToFile] = Json(Dict(merged.value))]]

\* What the command does to the target and how it ends: "exit" for
\* typer.Exit(code=1), "raised" for an exception nothing catches, "merged"
\* for the written target.
ScenariosMergeOf(files, append) ==
    LET base == LoadScenarios(ToFile, files, append).value
        data == files[FromFile].doc
        merged == MergeScenarios(base, data.d, append)
    IN IF files[FromFile].kind = "missing" THEN [outcome |-> "exit", files |-> files]
       ELSE IF files[FromFile].kind \in {"denied", "invalid"}
       THEN [outcome |-> "exit", files |-> files]
       ELSE IF ~IsDict(data) THEN [outcome |-> "raised", files |-> files]
       ELSE IF merged.raised THEN [outcome |-> "raised", files |-> files]
       ELSE [outcome |-> "merged",
             files |-> [files EXCEPT ![ToFile] = Json(Dict(merged.value))]]

InitMerge ==
    /\ scenarios_file = ToFile
    /\ append_lists \in BOOLEAN
    /\ \E source \in SourceContents, target \in TargetContents :
          fs = [p \in Paths |-> IF p = FromFile THEN source ELSE target]
    /\ pc = "merge"
    /\ scenarios = <<>>
    /\ log = <<>>
    /\ ret = NoRet
    /\ formality = None
    /\ conversation_history = <<>>
    /\ sent = <<>>
    /\ cli = NoCli
    /\ call = NoCall
    /\ out = NoOut

\* scenarios-merge --from FromFile --to ToFile: the partner is constructed
\* only when the source exists.
ScenariosMerge ==
    /\ pc = "merge"
    /\ LET done == ScenariosMergeOf(fs, append_lists)
           loaded == LoadScenarios(ToFile, fs, append_lists)
       IN /\ fs' = done.files
          /\ cli' = [NoCli EXCEPT !.requested = "scenarios-merge", !.outcome = done.outcome]
          /\ IF fs[FromFile].kind = "missing"
             THEN UNCHANGED <<scenarios, log, formality>>
             ELSE /\ scenarios' = loaded.value
                  /\ log' = log \o loaded.warnings
                  /\ formality' = FORMAL
    /\ pc' = "exit"
    /\ UNCHANGED <<scenarios_file, append_lists, ret, conversation_history, sent, call, out>>

NextMerge == ScenariosMerge

SpecMerge == InitMerge /\ [][NextMerge]_vars

\* The names of the document of a file; none if it holds no JSON object.
NamesIn(file) ==
    IF file.kind = "json" /\ IsDict(file.doc) THEN Range(Keys(file.doc.d)) ELSE {}

\* The entries of the document of a file; none if it holds no JSON object.
EntriesIn(file) == IF file.kind = "json" /\ IsDict(file.doc) THEN file.doc.d ELSE <<>>

\* The file holds a JSON object.
HoldsObject(file) == file.kind = "json" /\ IsDict(file.doc)

\* C22: a run of the command whose source holds a JSON object writes the
\* target: the target then holds every name of the source, of the previous
\* target and of the built-in collection, and is the source merged onto the
\* previous target merged onto the built-in collection.
C22_MergeWritesAll ==
    [][(pc = "merge" /\ pc' = "exit" /\ HoldsObject(fs[FromFile])) =>
          /\ cli'.outcome = "merged"
          /\ NamesIn(fs[FromFile]) \cup NamesIn(fs[ToFile]) \cup Range(Keys(Default))
                 \subseteq NamesIn(fs'[ToFile])
          /\ fs'[ToFile] =
                 Json(Dict(MergeEntries(MergeEntries(Default, EntriesIn(fs[ToFile]), append_lists),
                                        EntriesIn(fs[FromFile]), append_lists)))]_vars

\* The exit code of the process: 0 when the command returns, 1 for
\* typer.Exit(code=1) and for an exception nothing catches.
ExitCode == IF cli.outcome = "merged" THEN 0 ELSE 1

\* The source does not exist, or does not hold a JSON object.
NoSource ==
    \/ fs[FromFile].kind \in {"missing", "invalid"}
    \/ fs[FromFile].kind = "json" /\ ~IsDict(fs[FromFile].doc)

\* C30: a run of the command whose source does not exist or is no JSON
\* object ends with exit code 1 and leaves the target as it was; the target
\* changes only in a run that merged.
C30_NoSourceNoWrite ==
    /\ [](pc = "exit" /\ NoSource => ExitCode = 1)
    /\ [][(pc = "merge" /\ pc' = "exit") =>
             /\ NoSource => fs' = fs
             /\ fs' # fs => cli'.outcome = "merged" /\ ~NoSource]_vars

\* The source holds a list, the target a scenario: the command fails and the
\* target still holds that scenario.
C30_Witness ==
    /\ pc = "exit"
    /\ fs[FromFile] = Json(List(<<"Post">>))
    /\ fs[ToFile] = Json(Dict(<< <<"Post", NewScenario>> >>))
    /\ cli.outcome = "raised"

(* ----------------------------- word order ------------------------------ *)

\* `if element:` for an Optional[str]: neither None nor the empty string.
Given(element) == element # None /\ element # ""

\* [element] if it is given, nothing otherwise.
IfGiven(element) == IF Given(element) THEN <<element>> ELSE <<>>

\* " ".join(elements) + ".", a string as the sequence of its pieces.
RECURSIVE Joined(_)
Joined(elements) ==
    IF elements = <<>> THEN <<".">>
    ELSE IF Len(elements) = 1 THEN <<elements[1], ".">>
    ELSE <<elements[1], " ">> \o Joined(Tail(elements))

\* arrange_elements with the time in front of the direct object.
ArrangeElementsTimeFirst(subject, verb, time, manner, place, direct_object) ==
    [correct_order |->
         Joined(<<subject, verb>> \o IfGiven(time) \o IfGiven(direct_object)
                    \o IfGiven(manner) \o IfGiven(place)),
     variations |->
         (IF Given(time)
          THEN <<Joined(<<time, verb, subject>> \o IfGiven(direct_object)
                            \o IfGiven(manner) \o IfGiven(place))>>
          ELSE <<>>)
         \o (IF Given(place)
             THEN <<Joined(<<place, verb, subject>> \o IfGiven(time)
                               \o IfGiven(direct_object) \o IfGiven(manner))>>
             ELSE <<>>)]

ArrangeElementsOf(subject, verb, time, manner, place, direct_object) ==
    [correct_order |->
         Joined(<<subject, verb>> \o IfGiven(direct_object) \o IfGiven(time)
                    \o IfGiven(manner) \o IfGiven(place)),
     variations |->
         (IF Given(time)
          THEN <<Joined(<<time, verb, subject>> \o IfGiven(direct_object)
                            \o IfGiven(manner) \o IfGiven(place))>>
          ELSE <<>>)
         \o (IF Given(place)
             THEN <<Joined(<<place, verb, subject>> \o IfGiven(direct_object)
                               \o IfGiven(time) \o IfGiven(manner))>>
             ELSE <<>>)]

Subjects == {"Ich", "Wir"}

Verbs == {"gehe", "sehe"}

Times == {None, "", "heute"}

Manners == {None, "", "mit dem Zug"}

WordOrderPlaces == {None, "", "nach Hause"}

DirectObjects == {None, "", "den Mann"}

InitWordOrder ==
    /\ scenarios_file = None
    /\ append_lists = FALSE
    /\ fs = [p \in Paths |-> Missing]
    /\ pc = "word_order"
    /\ scenarios = <<>>
    /\ log = <<>>
    /\ ret = NoRet
    /\ formality = None
    /\ conversation_history = <<>>
    /\ sent = <<>>
    /\ cli = NoCli
    /\ call = NoCall
    /\ out = NoOut

ArrangeElements(subject, verb, time, manner, place, direct_object) ==
    /\ pc = "word_order"
    /\ call' = [op |-> "arrange_elements", subject |-> subject, verb |-> verb, time |-> time,
                manner |-> manner, place |-> place, direct_object |-> direct_object]
    /\ out' = [op |-> "arrange_elements",
               result |-> ArrangeElementsOf(subject, verb, time, manner, place, direct_object)]
    /\ UNCHANGED <<scenarios_file, append_lists, fs, pc, scenarios, log, ret, talk, cli>>

NextWordOrder ==
    \E subject \in Subjects, verb \in Verbs, time \in Times, manner \in Manners,
       place \in WordOrderPlaces, direct_object \in DirectObjects :
        ArrangeElements(subject, verb, time, manner, place, direct_object)

SpecWordOrder == InitWordOrder /\ [][NextWordOrder]_vars

\* The elements of a returned sentence: the pieces between the blanks,
\* without the full stop.
ElementsOf(sentence) == [k \in 1..(Len(sentence) \div 2) |-> sentence[2 * k - 1]]

\* The sentence is well formed: elements, blanks between them, a full stop.
Sentence(sentence) ==
    /\ Len(sentence) % 2 = 0
    /\ sentence[Len(sentence)] = "."
    /\ \A k \in 1..(Len(sentence) \div 2 - 1) : sentence[2 * k] = " "

Arranged == call.op = "arrange_elements"

\* The elements of the call that were given, subject and verb included.
GivenElements ==
    {call.subject, call.verb}
        \cup {e \in {call.direct_object, call.time, call.manner, call.place} : Given(e)}

Count(sentence, element) ==
    Cardinality({k \in 1..Len(ElementsOf(sentence)) : ElementsOf(sentence)[k] = element})

\* The variation that starts with the element, if there is exactly one.
VariationsFrom(element) ==
    {k \in 1..Len(out.result.variations) : out.result.variations[k][1] = element}

StartsRight(sentence, element) ==
    /\ Sentence(sentence)
    /\ Len(ElementsOf(sentence)) >= 3
    /\ ElementsOf(sentence)[1] = element
    /\ ElementsOf(sentence)[2] = call.verb
    /\ ElementsOf(sentence)[3] = call.subject
    /\ \A e \in GivenElements : Count(sentence, e) = 1
    /\ Len(ElementsOf(sentence)) = Cardinality(GivenElements)

\* C23: correct_order is subject, verb, then the given ones of direct object,
\* time, manner, place in that order; there is one variation for a given time
\* and one for a given place and no other, each starts with that element,
\* the verb, the subject and holds every given element once; the verb is the
\* second element of every returned sentence.
C23_ArrangeElements ==
    Arranged =>
        LET r == out.result
        IN /\ Sentence(r.correct_order)
           /\ ElementsOf(r.correct_order) =
                  <<call.subject, call.verb>> \o IfGiven(call.direct_object)
                      \o IfGiven(call.time) \o IfGiven(call.manner) \o IfGiven(call.place)
           /\ Len(r.variations) =
                  (IF Given(call.time) THEN 1 ELSE 0) + (IF Given(call.place) THEN 1 ELSE 0)
           /\ Given(call.time) =>
                  /\ Cardinality(VariationsFrom(call.time)) = 1
                  /\ \A k \in VariationsFrom(call.time) : StartsRight(r.variations[k], call.time)
           /\ Given(call.place) =>
                  /\ Cardinality(VariationsFrom(call.place)) = 1
                  /\ \A k \in VariationsFrom(call.place) : StartsRight(r.variations[k], call.place)
           /\ \A s \in {r.correct_order} \cup Range(r.variations) : ElementsOf(s)[2] = call.verb

\* All four optional elements given: two variations beside the correct order.
C23_Witness ==
    /\ Arranged
    /\ Given(call.direct_object) /\ Given(call.time) /\ Given(call.manner) /\ Given(call.place)
    /\ Len(out.result.variations) = 2
    /\ out.result.correct_order =
           <<call.subject, " ", call.verb, " ", "den Mann", " ", "heute", " ", "mit dem Zug", " ",
             "nach Hause", ".">>

(* ------------------ _merge_scenarios on objects ------------------------ *)

\* The objects of the interpreter: a heap is a sequence of objects and the
\* address of an object is its index. A dict holds its keys and the addresses
\* of its values; None, a str and a list of str hold their value.
Object(v) == [t |-> v.t, s |-> v.s, l |-> v.l, keys |-> <<>>, refs |-> <<>>]

DictObject(keys, refs) == [t |-> "dict", s |-> "", l |-> <<>>, keys |-> keys, refs |-> refs]

\* A new object: [heap, at].
New(heap, object) == [heap |-> Append(heap, object), at |-> Len(heap) + 1]

\* json.loads: the objects of a JSON value, the values of a dict first. (A
\* heap only grows and a new object is its last; the tests of that in the
\* loops below make the evaluation proceed pass by pass.)
RECURSIVE Store(_, _), StoreItems(_, _, _)
Store(heap, v) ==
    IF IsDict(v)
    THEN LET done == StoreItems(heap, v.d, <<>>)
         IN New(done.heap, DictObject(Keys(v.d), done.refs))
    ELSE New(heap, Object(v))

StoreItems(heap, items, refs) ==
    IF items = <<>> THEN [heap |-> heap, refs |-> refs]
    ELSE LET one == Store(heap, Head(items)[2])
         IN IF one.at = Len(one.heap)
            THEN StoreItems(one.heap, Tail(items), Append(refs, one.at))
            ELSE [heap |-> one.heap, refs |-> refs]

\* The JSON value of the object at an address.
RECURSIVE Deref(_, _)
Deref(heap, at) ==
    LET object == heap[at]
    IN IF object.t = "dict"
       THEN Dict([k \in 1..Len(object.keys) |-> <<object.keys[k], Deref(heap, object.refs[k])>>])
       ELSE [t |-> object.t, s |-> object.s, l |-> object.l, d |-> <<>>]

\* k in d
HasKey(object, k) == \E i \in 1..Len(object.keys) : object.keys[i] = k

\* d[k]
RefOf(object, k) == object.refs[CHOOSE i \in 1..Len(object.keys) : object.keys[i] = k]

\* d[k] = v
SetKey(object, k, ref) ==
    IF HasKey(object, k)
    THEN [object EXCEPT !.refs = [i \in 1..Len(@) |-> IF object.keys[i] = k THEN ref ELSE @[i]]]
    ELSE [object EXCEPT !.keys = Append(@, k), !.refs = Append(@, ref)]

\* d.update(o)
RECURSIVE UpdateObject(_, _, _)
UpdateObject(object, keys, refs) ==
    IF keys = <<>> THEN object
    ELSE UpdateObject(SetKey(object, Head(keys), Head(refs)), Tail(keys), Tail(refs))

\* dict(x) raises: x is None, a non-empty str or a non-empty list of phrases.
DictRaises(object) ==
    object.t # "dict" /\ (object.t = "null" \/ object.s # "" \/ object.l # <<>>)

\* dict(x) with the bug of no copy: the object itself.
NoCopy(heap, at) == [heap |-> heap, at |-> at]

\* dict(x): a new dict with the keys and the values (not copies of them) of x.
CopyDict(heap, at) ==
    New(heap, IF heap[at].t = "dict" THEN heap[at] ELSE DictObject(<<>>, <<>>))

\* {k: dict(v) for k, v in base.items()}: the copies of the values.
RECURSIVE CopyValues(_, _, _)
CopyValues(heap, refs, copies) ==
    IF refs = <<>> THEN [heap |-> heap, refs |-> copies]
    ELSE LET one == CopyDict(heap, Head(refs))
         IN IF one.at <= Len(one.heap)
            THEN CopyValues(one.heap, Tail(refs), Append(copies, one.at))
            ELSE [heap |-> one.heap, refs |-> copies]

\* One pass of the loop over odata.items() on the dict at `merged`.
HeapMergeField(heap, merged, field, oval, append) ==
    LET have == IF HasKey(heap[merged], field) THEN RefOf(heap[merged], field) ELSE 0
    IN IF have # 0 /\ heap[have].t = "dict" /\ heap[oval].t = "dict"
       THEN LET nested == CopyDict(heap, have)
                updated == [nested.heap EXCEPT
                               ![nested.at] = UpdateObject(@, heap[oval].keys, heap[oval].refs)]
            IN [updated EXCEPT ![merged] = SetKey(@, field, nested.at)]
       ELSE IF append /\ have # 0 /\ heap[have].t = "list" /\ heap[oval].t = "list"
       THEN LET joined == New(heap, Object(List(heap[have].l
                                                   \o NotIn(heap[oval].l, heap[have].l))))
            IN [joined.heap EXCEPT ![merged] = SetKey(@, field, joined.at)]
       ELSE [heap EXCEPT ![merged] = SetKey(@, field, oval)]

RECURSIVE HeapMergeFields(_, _, _, _, _)
HeapMergeFields(heap, merged, keys, refs, append) ==
    IF keys = <<>> THEN heap
    ELSE LET next == HeapMergeField(heap, merged, Head(keys), Head(refs), append)
         IN IF Len(next) >= Len(heap)
            THEN HeapMergeFields(next, merged, Tail(keys), Tail(refs), append)
            ELSE next

\* One pass of the loop over override.items() on the dict at `result`.
HeapMergeEntry(heap, result, name, odata, append) ==
    IF ~HasKey(heap[result], name) \/ heap[odata].t # "dict"
    THEN [heap EXCEPT ![result] = SetKey(@, name, odata)]
    ELSE LET merged == CopyDict(heap, RefOf(heap[result], name))
             done == HeapMergeFields(merged.heap, merged.at, heap[odata].keys,
                                     heap[odata].refs, append)
         IN [done EXCEPT ![result] = SetKey(@, name, merged.at)]

RECURSIVE HeapMergeEntries(_, _, _, _, _)
HeapMergeEntries(heap, result, keys, refs, append) ==
    IF keys = <<>> THEN heap
    ELSE LET next == HeapMergeEntry(heap, result, Head(keys), Head(refs), append)
         IN IF Len(next) >= Len(heap)
            THEN HeapMergeEntries(next, result, Tail(keys), Tail(refs), append)
            ELSE next

\* _merge_scenarios(base, override) on the objects at `base` and `override`:
\* [raised, heap, at], the heap after the call and the address of the result.
HeapMergeScenarios(heap, base, override, append) ==
    IF \/ \E i \in 1..Len(heap[base].refs) : DictRaises(heap[heap[base].refs[i]])
       \/ heap[override].t # "dict"
    THEN [raised |-> TRUE, heap |-> heap, at |-> 0]
    ELSE LET copies == CopyValues(heap, heap[base].refs, <<>>)
             result == New(copies.heap, DictObject(heap[base].keys, copies.refs))
         IN [raised |-> FALSE,
             heap |-> HeapMergeEntries(result.heap, result.at, heap[override].keys,
                                       heap[override].refs, append),
             at |-> result.at]

\* The call on fresh objects of the two collections: whether it raised, the
\* value it returned, and the values of its two arguments after it.
MergeCallOf(base, override, append) ==
    LET b == Store(<<>>, Dict(base))
        o == Store(b.heap, Dict(override))
        done == HeapMergeScenarios(o.heap, b.at, o.at, append)
    IN [raised |-> done.raised,
        value |-> IF done.raised THEN <<>> ELSE Deref(done.heap, done.at).d,
        base |-> Deref(done.heap, b.at).d,
        override |-> Deref(done.heap, o.at).d]

(* ------------------------- merge after merge --------------------------- *)

\* The largest number of merges in a row.
MaxMerges == 2

\* The documents merged: no entry, a non-mapping entry, a new scenario, a
\* refinement of a built-in scenario, two entries.
MergingDocs ==
    {<<>>,
     << <<"Post", Null>> >>, << <<"Post", Str("")>> >>, << <<"Post", Str("geschlossen")>> >>,
     << <<"Café", List(<<"Guten Tag!">>)>> >>,
     << <<"Post", NewScenario>> >>, << <<"Post", Mismatched>> >>,
     << <<"Bäckerei", Refinement>> >>, << <<"Bäckerei", Mismatched>> >>,
     << <<"Post", NewScenario>>, <<"Bäckerei", Refinement>> >>}

InitMerging ==
    /\ scenarios_file = None
    /\ append_lists \in BOOLEAN
    /\ fs = [p \in Paths |-> Missing]
    /\ pc = "merging"
    /\ scenarios = Default
    /\ log = <<>>
    /\ ret = NoRet
    /\ formality = FORMAL
    /\ conversation_history = <<>>
    /\ sent = <<>>
    /\ cli = NoCli
    /\ call = [op |-> "", calls |-> 0, base |-> <<>>, override |-> <<>>]
    /\ out = NoOut

\* merged = partner._merge_scenarios(base, override), the base being the
\* collection the merges before it gave.
MergeCall(override) ==
    /\ pc = "merging"
    /\ call.calls < MaxMerges
    /\ LET done == MergeCallOf(scenarios, override, append_lists)
       IN /\ call' = [op |-> "_merge_scenarios", calls |-> call.calls + 1,
                      base |-> scenarios, override |-> override]
          /\ out' = [op |-> "_merge_scenarios", raised |-> done.raised, value |-> done.value,
                     base |-> done.base, override |-> done.override]
          /\ scenarios' = IF done.raised THEN scenarios ELSE done.value
    /\ UNCHANGED <<scenarios_file, append_lists, fs, pc, log, ret, talk, cli>>

NextMerging == \E override \in MergingDocs : MergeCall(override)

SpecMerging == InitMerging /\ [][NextMerging]_vars

Merged == call.op = "_merge_scenarios"

\* The fields of the base entry that the overlay entry does not name.
Unnamed(name) ==
    {f \in Range(Keys(Get(call.base, name).d)) : ~Has(Get(call.override, name).d, f)}

\* C24: the call returns, every base scenario that the overlay does not name
\* has its base value in the result, and so has every field of a base scenario
\* (a mapping) that its overlay entry (a mapping) does not name.
C24_OnlyNamedChange ==
    Merged =>
        /\ ~out.raised
        /\ \A name \in Range(Keys(call.base)) :
              /\ ~Has(call.override, name) =>
                     Has(out.value, name) /\ Get(out.value, name) = Get(call.base, name)
              /\ (/\ Has(call.override, name)
                  /\ IsDict(Get(call.override, name))
                  /\ IsDict(Get(call.base, name))) =>
                     \A f \in Unnamed(name) :
                         /\ Has(out.value, name) /\ IsDict(Get(out.value, name))
                         /\ Has(Get(out.value, name).d, f)
                         /\ Get(Get(out.value, name).d, f) = Get(Get(call.base, name).d, f)

\* C25: after the call the base collection and the override document have
\* the values they had before it, whether or not it raised.
C25_ArgumentsUnchanged ==
    Merged => out.base = call.base /\ out.override = call.override

\* A refinement of a built-in scenario was merged: its nested mapping and its
\* list were merged into those of the base.
C25_Witness ==
    /\ Merged
    /\ ~out.raised
    /\ append_lists
    /\ call.override = << <<"Bäckerei", Refinement>> >>
    /\ Get(out.value, "Bäckerei") # Get(call.base, "Bäckerei")
    /\ Get(out.value, "Bäckerei") # Refinement

\* C26: merging the overlay of the call before onto its result returns and
\* gives that result again.
C26_Idempotent ==
    [][(Merged /\ ~out.raised /\ call'.calls = call.calls + 1
          /\ call'.override = call.override) =>
             ~out'.raised /\ out'.value = out.value]_vars

(* ------------------------- a long conversation ------------------------- *)

\* The length of the history up to which the partner of the long
\* conversation is asked to chat.
MaxChatHistory == 7

\* A failure, no content, a text that is no JSON, a JSON object and a JSON
\* list as outcomes of the completion request.
ChatReplies ==
    {Failure, NoContent, Content("Guten Tag!"),
     Content("{\"german\": \"Hallo\", \"english\": \"Hello\"}"), Content("[\"Hallo\"]")}

\* The partner after construction without a scenarios file.
InitChat ==
    /\ scenarios_file = None
    /\ append_lists = FALSE
    /\ fs = [p \in Paths |-> Missing]
    /\ pc = "ready"
    /\ scenarios = Default
    /\ log = <<>>
    /\ ret = NoRet
    /\ formality = FORMAL
    /\ conversation_history = <<>>
    /\ sent = <<>>
    /\ cli = NoCli
    /\ call = NoCall
    /\ out = NoOut

NextChat ==
    \E user_input \in UserInputs, reply \in ChatReplies :
        Len(conversation_history) < MaxChatHistory /\ Chat(user_input, reply)

SpecChat == InitChat /\ [][NextChat]_vars

\* The history alternates user, assistant from its first entry on.
Alternates(history) ==
    \A k \in 1..Len(history) :
        history[k].role = (IF k % 2 = 1 THEN "user" ELSE "assistant")

\* C27: the history has even length and alternates user, assistant; every
\* chat call adds two entries to it, the first being the user entry with the
\* input of the call, and does not raise.
C27_TwoEntriesPerChat ==
    /\ [](Len(conversation_history) % 2 = 0 /\ Alternates(conversation_history))
    /\ [][conversation_history' # conversation_history =>
             /\ ~ret'.raised
             /\ Len(conversation_history') = Len(conversation_history) + 2
             /\ SubSeq(conversation_history', 1, Len(conversation_history)) = conversation_history
             /\ conversation_history'[Len(conversation_history) + 1] =
                    [role |-> "user", content |-> Str(ret'.arg)]]_vars

Chatted == ret.op = "chat"

\* The history the last chat call sent its request with: the history
\* without the assistant entry the call added after the request.
Asked ==
    IF ret.raised THEN conversation_history
    ELSE SubSeq(conversation_history, 1, Len(conversation_history) - 1)

\* C28: the messages of a chat call are the system prompt and the last
\* min(5, length) entries of the history in order: at most six messages, the
\* last being the user entry of the call.
C28_LastFiveSent ==
    Chatted =>
        LET n == Min(5, Len(Asked))
        IN /\ Len(sent) = 1 + n
           /\ Len(sent) <= 6
           /\ sent[1] = [role |-> "system", content |-> Str(SystemPrompt(formality))]
           /\ \A k \in 1..n : sent[1 + k] = Asked[Len(Asked) - n + k]
           /\ sent[Len(sent)] = [role |-> "user", content |-> Str(ret.arg)]

\* The fourth call of a conversation: of the seven entries of the history
\* the first two are not sent.
C28_Witness ==
    /\ Chatted
    /\ ~ret.raised
    /\ Len(Asked) = 7
    /\ Len(sent) = 6
    /\ sent[2] = Asked[3]

(* --------------------------- conjugate is total ------------------------ *)

\* C29: conjugate does not raise and returns one of the three types; a pair
\* of neither table, also of a strong or modal verb, is conjugated by the weak
\* rule; a tense that is no key of the weak endings gives no forms.
C29_ConjugateTotal ==
    out.op = "conjugate" =>
        /\ ~out.result.raised
        /\ out.result.type \in {"strong", "modal", "weak"}
        /\ <<call.verb, call.arg>> \notin StrongPairs \cup ModalPairs => out.result.type = "weak"
        /\ ~Has(WeakEndings, call.arg) => out.result.forms = <<>>

============================================================================
